---------------------------- MODULE Spec2Model ----------------------------
(***************************************************************************)
(* A model of the macro-market shock-transmission pipeline.                *)
(*                                                                         *)
(* Spec         the event-study stage (event_study.py, main): load the     *)
(*              merged price panel, build log returns, align the event     *)
(*              date, cut the two windows, fit the market model per        *)
(*              ticker, compute AR / CAR, write the summary and the panel. *)
(*                                                                         *)
(* Numbers.  Log prices are integers, so log returns (their first          *)
(* difference) are integers.  The least-squares solution is a rational;    *)
(* alpha and beta are kept as numerators over the common denominator den,  *)
(* and every AR / CAR of a ticker is kept as a numerator over that same    *)
(* den.  A rational is <<num, den>>; NaN is the rational 0/0.              *)
(* Positions in the trading-day index are 0-based as in the Python code.   *)
(***************************************************************************)
EXTENDS Integers, Sequences, FiniteSets, TLC

VARIABLES
    \* ---- event_study.py: inputs of main ----
    merged_exists,  \* os.path.exists(MERGED)
    df,             \* the price panel read from MERGED
    event_date,     \* --event_date (a calendar day number)
    pre_days,       \* --pre_days
    post_days,      \* --post_days
    car_k1,         \* --car_k1
    car_k2,         \* --car_k2
    \* ---- event_study.py: locals of main ----
    pc,             \* position in main
    err,            \* the exception main ended with, or "none"
    ret,            \* the return table (after dropna)
    ev,             \* the aligned event day
    ev_idx,         \* its position in all_dates
    est_window,     \* all_dates[est_start:est_end]
    event_window,   \* all_dates[event_start:event_end+1]
    todo,           \* tickers the loop has not reached yet
    rows,           \* summary rows collected by the loop
    ar_panels,      \* per-ticker AR/CAR frames collected by the loop
    summary,        \* the sorted summary table
    out,            \* names of the files written so far
    \* ---- one run of one stage of the file-based pipeline ----
    files,          \* the input files present on disk when the stage starts
    tickers_in,     \* the tickers of the stage's input table
    meta,           \* ticker_sectors.csv: ticker -> sector
    enough,         \* the tickers of the input with enough observations
    stage,          \* the stage that runs
    ip,             \* position in the stage's program (1-based)
    serr,           \* how the stage ended early, or NoError
    written,        \* the output files the run has written
    sector_of,      \* ticker -> sector, once the stage has mapped them
    kept,           \* the tickers of the rows of the stage's table
    reported,       \* tickers the stage has reported as unmapped
    sample,         \* tickers whose rows entered a grouped comparison
    descr,          \* tickers whose rows entered a descriptive table
    \* ---- a call of a pure function ----
    call,           \* the function and its arguments
    result,         \* its value, or Pending
    \* ---- volatility_models.py: locals of main ----
    vol_pc,         \* position in main
    vol_todo,       \* tickers the loop has not reached yet
    vol_rows,       \* the rows collected by the loop
    ok_flags,       \* ticker -> <<ok1, ok2>> returned by the estimator
    used_garch_any, \* used_garch_any
    vol_out,        \* the rows of the written volatility summary
    \* ---- the random generators of a process ----
    np_random       \* state of numpy's global generator

esInputs == <<merged_exists, df, event_date, pre_days, post_days, car_k1, car_k2>>
esLocals == <<pc, err, ret, ev, ev_idx, est_window, event_window, todo, rows,
              ar_panels, summary, out>>
pipeInputs == <<files, tickers_in, meta, enough, stage>>
pipeLocals == <<ip, serr, written, sector_of, kept, reported, sample, descr>>
pureVars == <<call, result>>
volVars == <<vol_pc, vol_todo, vol_rows, ok_flags, used_garch_any, vol_out>>
rngVars == <<np_random>>
vars == <<esInputs, esLocals, pipeInputs, pipeLocals, pureVars, volVars, rngVars>>

----------------------------------------------------------------------------
(* Bounds of the model *)

MaxRows == 28     \* rows of the largest price panel
MaxLead == 1      \* leading rows in which the last ticker has no price yet
MaxSeed == 1      \* number of price shapes - 1
MaxPre  == 3      \* largest --pre_days
MaxPost == 3      \* largest --post_days

----------------------------------------------------------------------------
(* Program constants *)

MARKET_TICKER == "^NSEI"
MACROS == {"BZ=F", "INR=X", "^INDIAVIX", "^VIX", MARKET_TICKER}
GAP == 21
EVENT_LEAD == 5
DEFAULT_K1 == 5
DEFAULT_K2 == 10

NaN == <<>>                 \* a missing cell of a table
Num(v) == <<v>>             \* a present cell
RNaN == <<0, 0>>            \* np.nan as a rational

----------------------------------------------------------------------------
(* Generic helpers *)

Max(a, b) == IF a >= b THEN a ELSE b
Min(a, b) == IF a <= b THEN a ELSE b

Range(s) == {s[i] : i \in DOMAIN s}

RECURSIVE SumSeq(_)
SumSeq(s) == IF s = <<>> THEN 0 ELSE s[1] + SumSeq(Tail(s))

\* Python slice s[a:b] (0-based, half open, negative bounds count from the end)
PySlice(s, a, b) ==
    LET n  == Len(s)
        lo == IF a < 0 THEN Max(0, n + a) ELSE Min(a, n)
        hi == IF b < 0 THEN Max(0, n + b) ELSE Min(b, n)
    IN  SubSeq(s, lo + 1, hi)

\* the positions 1..n that satisfy Keep, in order
Positions(n, Keep(_)) == SelectSeq([i \in 1..n |-> i], Keep)


----------------------------------------------------------------------------
(* The input price panel (data/raw/merged_market_daily.csv) *)

\* calendar day of the i-th row: five trading days, then a two-day weekend
DateOf(i) == i + 2 * ((i - 1) \div 5)

ColIx(c) ==
    CASE c = MARKET_TICKER -> 0
      [] c = "ONGC.NS"     -> 1
      [] c = "TCS.NS"      -> 2
      [] OTHER             -> 3

\* the log of the close price of column c in row i, for price shape seed
LogPrice(c, i, seed) == ((i + seed) * (i + ColIx(c))) % (ColIx(c) + 3)

\* data_download.py joins the sources outer and forward-fills: a column is
\* missing only in the rows before its first observation
PricePanel(n, cols, lead, seed) ==
    [dates |-> [i \in 1..n |-> DateOf(i)],
     cols  |-> cols,
     px    |-> [c \in Range(cols) |->
                  [i \in 1..n |-> IF c = "TCS.NS" /\ i <= lead
                                  THEN NaN
                                  ELSE Num(LogPrice(c, i, seed))]]]

NoPanel == [dates |-> <<>>, cols |-> <<>>, px |-> <<>>]

ColumnLists ==
    { <<MARKET_TICKER, "BZ=F", "ONGC.NS", "TCS.NS">>,
      <<MARKET_TICKER, "ONGC.NS">>,
      <<MARKET_TICKER, "BZ=F">>,
      <<"BZ=F", "ONGC.NS">> }

RowCounts == {0, 1, 2, MaxRows - 3, MaxRows}

\* requested event dates: before the panel, and through the weekend after it
EventDates == {0, 1} \cup (DateOf(GAP + 3) .. DateOf(MaxRows) + 3)

----------------------------------------------------------------------------
(* event_study.py: helpers of main *)

\* logret: np.log(s).diff(); the cells hold log prices, so this is diff()
logret(s) ==
    [i \in 1..Len(s) |->
        IF i = 1 \/ s[i] = NaN \/ s[i - 1] = NaN
        THEN NaN
        ELSE Num(s[i][1] - s[i - 1][1])]

\* tickers = [c for c in cols if c not in MACROS]
TickersOf(cols) == SelectSeq(cols, LAMBDA c : c \notin MACROS)

\* ret = df[[MARKET_TICKER] + tickers].apply(logret).dropna()
Returns(d) ==
    LET used == <<MARKET_TICKER>> \o TickersOf(d.cols)
        lr   == [c \in Range(used) |-> logret(d.px[c])]
        keep == Positions(Len(d.dates),
                          LAMBDA i : \A c \in Range(used) : lr[c][i] # NaN)
    IN  [dates |-> [k \in 1..Len(keep) |-> d.dates[keep[k]]],
         cols  |-> used,
         r     |-> [c \in Range(used) |->
                      [k \in 1..Len(keep) |-> lr[c][keep[k]][1]]]]

NoReturns == [dates |-> <<>>, cols |-> <<>>, r |-> <<>>]

\* all_dates.get_loc(d): the 0-based position of label d
get_loc(dates, d) == (CHOOSE i \in 1..Len(dates) : dates[i] = d) - 1

\* ev = event_date if it is a trading day, else the first later trading day,
\* else the last trading day (IndexError on an empty index: see AlignEvent)
\* mutant: falls back to the trading day before the requested date
AlignedDayBefore(dates, e) ==
    LET earlier == SelectSeq(dates, LAMBDA d : d <= e)
    IN  IF e \in Range(dates) THEN e
        ELSE IF Len(earlier) > 0 THEN earlier[Len(earlier)]
        ELSE dates[1]

AlignedDay(dates, e) ==
    LET later == SelectSeq(dates, LAMBDA d : d >= e)
    IN  IF e \in Range(dates) THEN e
        ELSE IF Len(later) > 0 THEN later[1]
        ELSE dates[Len(dates)]

est_start(idx, pre)      == Max(0, idx - (pre + GAP))
\* mutant: the estimation window runs up to the event day
est_end_nogap(idx)       == Max(0, idx)
est_end(idx)             == Max(0, idx - GAP)
\* mutant: the event window starts one day earlier
event_start_wide(idx)    == Max(0, idx - (EVENT_LEAD + 1))
event_start(idx)         == Max(0, idx - EVENT_LEAD)
event_end(idx, post, n)  == Min(n - 1, idx + post)

EstWindow(dates, idx, pre) == PySlice(dates, est_start(idx, pre), est_end(idx))
EventWindow(dates, idx, post) ==
    PySlice(dates, event_start(idx), event_end(idx, post, Len(dates)) + 1)

\* ret.loc[window, c]
Loc(r, window, c) ==
    [k \in 1..Len(window) |-> r.r[c][get_loc(r.dates, window[k]) + 1]]

\* mutant: the emptiness test never fires
never_empty(s) == FALSE

\* DataFrame.empty / Series.empty
empty(s) == Len(s) = 0

Dot(x, y) == SumSeq([k \in 1..Len(x) |-> x[k] * y[k]])

\* fit_market_model: np.linalg.lstsq([1, ret_m], ret_i).  With a full-rank
\* design this is the normal-equation solution; with a rank-deficient one
\* (all market returns equal to c) lstsq returns the minimum-norm solution
\* ybar * (1, c) / (1 + c^2); with no rows at all it returns zeros.
fit_market_model(ret_i, ret_m) ==
    LET n   == Len(ret_m)
        Sx  == SumSeq(ret_m)
        Sy  == SumSeq(ret_i)
        Sxx == Dot(ret_m, ret_m)
        Sxy == Dot(ret_m, ret_i)
        D   == n * Sxx - Sx * Sx
        c   == ret_m[1]
    IN  IF n = 0
        THEN [aN |-> 0, bN |-> 0, den |-> 1]
        ELSE IF D # 0
        THEN [aN |-> Sy * Sxx - Sx * Sxy, bN |-> n * Sxy - Sx * Sy, den |-> D]
        ELSE [aN |-> Sy, bN |-> c * Sy, den |-> n * (1 + c * c)]

\* ar = re[t] - (alpha + beta * re[MARKET_TICKER]), as numerators over den
AbnormalReturns(mm, re_t, re_m) ==
    [k \in 1..Len(re_t) |-> mm.den * re_t[k] - (mm.aN + mm.bN * re_m[k])]

\* Series.cumsum(): a running total, started afresh for the series
RECURSIVE Accumulate(_, _)
Accumulate(s, acc) ==
    IF s = <<>> THEN <<>>
    ELSE <<acc + s[1]>> \o Accumulate(Tail(s), acc + s[1])

\* mutant: the running total leaves out the day itself
cumsum_exclusive(s) ==
    IF s = <<>> THEN <<>> ELSE Accumulate(<<0>> \o SubSeq(s, 1, Len(s) - 1), 0)

cumsum(s) == Accumulate(s, 0)

\* car.loc[car.index <= k_date].iloc[-1] if not car.empty else np.nan,
\* with k_date = all_dates[min(ev_idx + k, len(all_dates) - 1)]
HorizonDate(dates, idx, k) == dates[Min(idx + k, Len(dates) - 1) + 1]

HorizonRaises(car_dates, k_date) ==
    /\ Len(car_dates) > 0
    /\ \A i \in 1..Len(car_dates) : car_dates[i] > k_date

\* mutant: iloc[0] instead of iloc[-1]
HorizonCarFirst(car_dates, car, den, k_date) ==
    IF Len(car_dates) = 0 THEN RNaN ELSE <<car[1], den>>

HorizonCar(car_dates, car, den, k_date) ==
    LET upto == Positions(Len(car_dates), LAMBDA i : car_dates[i] <= k_date)
    IN  IF Len(car_dates) = 0 THEN RNaN
        ELSE <<car[upto[Len(upto)]], den>>

CarCol(k) == "CAR_" \o ToString(k) \o "d"


\* a > b for rationals with positive denominators
RatGT(a, b) == a[1] * b[2] > b[1] * a[2]

\* a is placed before b by sort_values(ascending=False): NaN goes last
SortsBefore(a, b) ==
    /\ a # RNaN
    /\ (b = RNaN \/ RatGT(a, b))

RECURSIVE InsertDesc(_, _, _)
InsertDesc(sorted, row, col) ==
    IF sorted = <<>> THEN <<row>>
    ELSE IF SortsBefore(row[col], sorted[1][col])
         THEN <<row>> \o sorted
         ELSE <<sorted[1]>> \o InsertDesc(Tail(sorted), row, col)

\* DataFrame.sort_values(col, ascending=False)
RECURSIVE sort_values(_, _)
sort_values(rs, col) ==
    IF rs = <<>> THEN <<>>
    ELSE InsertDesc(sort_values(SubSeq(rs, 1, Len(rs) - 1), col), rs[Len(rs)], col)

\* the frame tmp of one ticker: date, ticker, ar, car
TickerFrame(t, mm, dates, ar, car) ==
    [ticker |-> t, den |-> mm.den, date |-> dates, ar |-> ar, car |-> car]

\* the summary row of one ticker; with car_k1 = car_k2 the two CAR keys of
\* the dict literal coincide and the later value stays
SummaryRow(t, mm, k1, k1_car, k2, k2_car) ==
    [c \in {"ticker", "alpha", "beta", CarCol(k1), CarCol(k2)} |->
        CASE c = "ticker"   -> t
          [] c = "alpha"    -> <<mm.aN, mm.den>>
          [] c = "beta"     -> <<mm.bN, mm.den>>
          [] c = CarCol(k2) -> k2_car
          [] OTHER          -> k1_car]

\* panel = pd.concat(ar_panels): the rows of all frames, in order
RECURSIVE PanelRows(_)
PanelRows(frames) ==
    IF frames = <<>> THEN <<>>
    ELSE LET f == frames[1]
         IN  [k \in 1..Len(f.date) |->
                 [date |-> f.date[k], ticker |-> f.ticker,
                  ar |-> <<f.ar[k], f.den>>, car |-> <<f.car[k], f.den>>]]
             \o PanelRows(Tail(frames))

\* the ways main ends early
ERR_MISSING_MERGED == "SystemExit: Missing merged_market_daily.csv. Run data_download.py first."
ERR_NO_MARKET      == "SystemExit: Market ticker ^NSEI not found."
ERR_EMPTY_INDEX    == "IndexError: ret.index[-1] on an empty index"
ERR_HORIZON        == "IndexError: car.loc[car.index <= k_date].iloc[-1]"
ERR_NO_ROWS        == "KeyError: sort_values on a frame without the CAR column"

SUMMARY_CSV == "event_study_summary.csv"
PANEL_CSV   == "event_study_panel.csv"
CAR_BAR_PNG == "car_bar.png"
MEAN_AR_PNG == "mean_ar.png"

----------------------------------------------------------------------------
(* event_study.py: main, step by step *)

PreDays  == {0, 1, MaxPre}
PostDays == {0 - (EVENT_LEAD + 1), 0, MaxPost}
Horizons1 == {0, DEFAULT_K1}
Horizons2 == {DEFAULT_K1, DEFAULT_K2}

Panels ==
    { PricePanel(n, cols, lead, seed) :
        n \in RowCounts, cols \in ColumnLists, lead \in 0..MaxLead, seed \in 0..MaxSeed }

InitEventStudy ==
    /\ merged_exists \in BOOLEAN
    /\ df \in (IF merged_exists THEN Panels ELSE {NoPanel})
    /\ event_date \in EventDates
    /\ pre_days \in PreDays
    /\ post_days \in PostDays
    /\ car_k1 \in Horizons1
    /\ car_k2 \in Horizons2
    /\ pc = "start"
    /\ err = "none"
    /\ ret = NoReturns
    /\ ev = 0
    /\ ev_idx = 0
    /\ est_window = <<>>
    /\ event_window = <<>>
    /\ todo = <<>>
    /\ rows = <<>>
    /\ ar_panels = <<>>
    /\ summary = <<>>
    /\ out = {}

Fail(e) ==
    /\ pc' = "failed"
    /\ err' = e

\* lines 39-42: the input file must exist
CheckInput ==
    /\ pc = "start"
    /\ IF merged_exists
       THEN pc' = "loaded" /\ err' = err
       ELSE Fail(ERR_MISSING_MERGED)
    /\ UNCHANGED <<pipeInputs, pipeLocals, pureVars, volVars, rngVars>>
    /\ UNCHANGED <<esInputs, ret, ev, ev_idx, est_window, event_window, todo,
                   rows, ar_panels, summary, out>>

\* lines 49-55: the market column must exist; returns
ComputeReturns ==
    /\ pc = "loaded"
    /\ IF MARKET_TICKER \in Range(df.cols)
       THEN /\ ret' = Returns(df)
            /\ pc' = "returns"
            /\ err' = err
       ELSE /\ Fail(ERR_NO_MARKET)
            /\ ret' = ret
    /\ UNCHANGED <<pipeInputs, pipeLocals, pureVars, volVars, rngVars>>
    /\ UNCHANGED <<esInputs, ev, ev_idx, est_window, event_window, todo,
                   rows, ar_panels, summary, out>>

\* lines 57-75: align the event date and cut the windows; on an empty return
\* table ret.index[-1] raises IndexError
AlignEvent ==
    /\ pc = "returns"
    /\ IF Len(ret.dates) = 0
       THEN /\ Fail(ERR_EMPTY_INDEX)
            /\ UNCHANGED <<ev, ev_idx, est_window, event_window, todo>>
       ELSE LET e   == AlignedDay(ret.dates, event_date)
                idx == get_loc(ret.dates, e)
            IN  /\ ev' = e
                /\ ev_idx' = idx
                /\ est_window' = EstWindow(ret.dates, idx, pre_days)
                /\ event_window' = EventWindow(ret.dates, idx, post_days)
                /\ todo' = TickersOf(df.cols)
                /\ pc' = "loop"
                /\ err' = err
    /\ UNCHANGED <<pipeInputs, pipeLocals, pureVars, volVars, rngVars>>
    /\ UNCHANGED <<esInputs, ret, rows, ar_panels, summary, out>>

\* lines 80-103: one iteration of the loop over the tickers
ProcessTicker ==
    /\ pc = "loop"
    /\ todo # <<>>
    /\ LET t    == Head(todo)
           mm_i == Loc(ret, est_window, t)
           mm_m == Loc(ret, est_window, MARKET_TICKER)
       IN  IF empty(mm_i)
           THEN \* if mm.empty: continue
                /\ todo' = Tail(todo)
                /\ UNCHANGED <<pc, err, rows, ar_panels>>
           ELSE LET mm   == fit_market_model(mm_i, mm_m)
                    re_t == Loc(ret, event_window, t)
                    re_m == Loc(ret, event_window, MARKET_TICKER)
                    ar   == AbnormalReturns(mm, re_t, re_m)
                    car  == cumsum(ar)
                    k1_date == HorizonDate(ret.dates, ev_idx, car_k1)
                    k2_date == HorizonDate(ret.dates, ev_idx, car_k2)
                IN  IF \/ HorizonRaises(event_window, k1_date)
                       \/ HorizonRaises(event_window, k2_date)
                    THEN /\ Fail(ERR_HORIZON)
                         /\ UNCHANGED <<todo, rows, ar_panels>>
                    ELSE /\ ar_panels' = Append(ar_panels,
                                TickerFrame(t, mm, event_window, ar, car))
                         /\ rows' = Append(rows,
                                SummaryRow(t, mm,
                                    car_k1, HorizonCar(event_window, car, mm.den, k1_date),
                                    car_k2, HorizonCar(event_window, car, mm.den, k2_date)))
                         /\ todo' = Tail(todo)
                         /\ UNCHANGED <<pc, err>>
    /\ UNCHANGED <<pipeInputs, pipeLocals, pureVars, volVars, rngVars>>
    /\ UNCHANGED <<esInputs, ret, ev, ev_idx, est_window, event_window, summary, out>>

\* lines 105-115: sort the summary and save the tables; sorting a frame built
\* from no rows raises KeyError (it has no CAR column)
WriteTables ==
    /\ pc = "loop"
    /\ todo = <<>>
    /\ IF rows = <<>>
       THEN /\ Fail(ERR_NO_ROWS)
            /\ UNCHANGED <<summary, out>>
       ELSE /\ summary' = sort_values(rows, CarCol(car_k2))
            /\ out' = out \cup {SUMMARY_CSV}
                          \cup (IF PanelRows(ar_panels) # <<>> THEN {PANEL_CSV} ELSE {})
            /\ pc' = "saved"
            /\ err' = err
    /\ UNCHANGED <<pipeInputs, pipeLocals, pureVars, volVars, rngVars>>
    /\ UNCHANGED <<esInputs, ret, ev, ev_idx, est_window, event_window, todo,
                   rows, ar_panels>>

\* lines 117-142: the two figures
SaveFigures ==
    /\ pc = "saved"
    /\ out' = out \cup (IF summary # <<>> THEN {CAR_BAR_PNG} ELSE {})
                  \cup (IF PanelRows(ar_panels) # <<>> THEN {MEAN_AR_PNG} ELSE {})
    /\ pc' = "done"
    /\ UNCHANGED <<pipeInputs, pipeLocals, pureVars, volVars, rngVars>>
    /\ UNCHANGED <<esInputs, err, ret, ev, ev_idx, est_window, event_window, todo,
                   rows, ar_panels, summary>>

NextEventStudy ==
    \/ CheckInput
    \/ ComputeReturns
    \/ AlignEvent
    \/ ProcessTicker
    \/ WriteTables
    \/ SaveFigures

----------------------------------------------------------------------------
(* The static sector tables and buckets of the stages *)

NaNSector == "<NaN>"        \* a missing sector (NaN after map / left merge)

\* the tickers of the model's input tables; SCI.NS is in no static table
Tickers == {"ONGC.NS", "TCS.NS", "HDFCBANK.NS", "SCI.NS"}

\* sector_analysis.py SECTOR_MAP and data_download.py FALLBACK_SECTOR agree
\* on these tickers
SECTOR_MAP ==
    ("ONGC.NS" :> "Energy") @@ ("TCS.NS" :> "IT") @@ ("HDFCBANK.NS" :> "Banks")
FALLBACK_SECTOR ==
    ("ONGC.NS" :> "Energy") @@ ("TCS.NS" :> "IT") @@ ("HDFCBANK.NS" :> "Banks")
    @@ ("ADANIPORTS.NS" :> "Infrastructure")
\* did_analysis.py and event_study_inference.py
ticker_to_sector ==
    ("ONGC.NS" :> "Energy") @@ ("TCS.NS" :> "IT") @@ ("HDFCBANK.NS" :> "Finance")

Stages ==
    {"data_download", "event_study", "sector_analysis", "event_study_inference",
     "did_analysis", "ddd_analysis", "volatility_models",
     "volatility_group_comparison", "global_linkages"}

TREATED_SECTORS(st) ==
    IF st = "volatility_group_comparison"
    THEN {"Metals", "Energy", "Autos", "Infrastructure", "Chemicals",
          "Industrials", "Basic Materials"}
    ELSE {"Metals", "Energy", "Autos", "Infrastructure", "Chemicals"}

DEFENSIVE_SECTORS(st) ==
    CASE st \in {"did_analysis", "event_study_inference"} ->
            {"FMCG", "Pharma", "Utilities", "Telecom", "IT", "Cement",
             "Finance", "Banks", "Consumer"}
      [] st \in {"ddd_analysis", "volatility_models"} ->
            {"FMCG", "Pharma", "Utilities", "Telecom", "IT", "Cement",
             "Finance", "Banks"}
      [] st = "volatility_group_comparison" ->
            {"FMCG", "Pharma", "Utilities", "Telecom", "IT", "Cement",
             "Consumer Defensive", "Technology"}
      [] OTHER ->
            {"FMCG", "Pharma", "Utilities", "Telecom", "IT", "Cement"}

\* mutant: an unknown sector is passed through instead of becoming Other
classify_group_passthrough(st, sector) ==
    IF sector \in TREATED_SECTORS(st) THEN "Treated"
    ELSE IF sector \in DEFENSIVE_SECTORS(st) THEN "Defensive"
    ELSE sector

\* classify_group (ddd_analysis, event_study_inference, volatility_models)
\* and to_group (did_analysis): NaN first, then the two buckets, else Other.
\* to_group of volatility_group_comparison has no NaN test; NaN is in neither
\* set, so it falls through to Other as well.
classify_group(st, sector) ==
    IF st # "volatility_group_comparison" /\ sector = NaNSector THEN "Other"
    ELSE IF sector \in TREATED_SECTORS(st) THEN "Treated"
    ELSE IF sector \in DEFENSIVE_SECTORS(st) THEN "Defensive"
    ELSE "Other"

\* dict.get / Series.map / left merge: the value, or NaN for a missing key
Lookup(table, t) == IF t \in DOMAIN table THEN table[t] ELSE NaNSector

----------------------------------------------------------------------------
(* data_download.py: the sector metadata it writes *)

\* what the market-data provider answers for "sector": nothing, or its own
\* sector names
NoAnswer == [t \in {} |-> ""]
YahooSectors ==
    ("ONGC.NS" :> "Energy") @@ ("TCS.NS" :> "Technology")
    @@ ("HDFCBANK.NS" :> "Financial Services") @@ ("SCI.NS" :> "Industrials")
YahooAnswers == {NoAnswer, YahooSectors}

\* fetch_sectors: the provider's sector, else FALLBACK_SECTOR, else "Unmapped"
fetch_sectors(tickers, yahoo) ==
    [t \in tickers |->
        IF t \in DOMAIN yahoo THEN yahoo[t]
        ELSE IF t \in DOMAIN FALLBACK_SECTOR THEN FALLBACK_SECTOR[t]
        ELSE "Unmapped"]

\* the ticker_sectors.csv files a stage may find: written by data_download
\* for all the tickers, or for all but one
Metas ==
    { fetch_sectors(eq, yahoo) :
        eq \in {Tickers, Tickers \ {"SCI.NS"}}, yahoo \in YahooAnswers }

----------------------------------------------------------------------------
(* The stages as programs: their file accesses and table steps, in the     *)
(* order of the source                                                     *)

MERGED      == "merged_market_daily.csv"
META        == "ticker_sectors.csv"
EXTRA       == "extra_exposed_tickers.csv"
VOL_SUMMARY == "volatility_summary.csv"
InputFiles  == {MERGED, META, SUMMARY_CSV, PANEL_CSV, VOL_SUMMARY}

Op(o, f) == [op |-> o, f |-> f]

\* mutant: the coefficient table is written before the merged price file
\* is read
global_linkages_late_read ==
    << Op("check", VOL_SUMMARY), Op("optread", META),
       Op("write", "global_linkages.csv"), Op("read", MERGED),
       Op("crunch", ""),
       Op("write", "global_energy_scatter.png"),
       Op("write", "global_fx_scatter.png") >>

global_linkages ==
    << Op("check", VOL_SUMMARY), Op("optread", META),
       Op("read", MERGED), Op("crunch", ""),
       Op("write", "global_linkages.csv"),
       Op("write", "global_energy_scatter.png"),
       Op("write", "global_fx_scatter.png") >>

Program(st) ==
    CASE st = "data_download" ->
            << Op("optread", EXTRA), Op("write", "all_tickers.csv"),
               Op("fetch", ""), Op("write", MERGED), Op("map", ""),
               Op("write", META), Op("report", "") >>
      [] st = "event_study" ->
            << Op("check", MERGED), Op("crunch", ""),
               Op("write", SUMMARY_CSV), Op("write", PANEL_CSV),
               Op("write", CAR_BAR_PNG), Op("write", MEAN_AR_PNG) >>
      [] st = "sector_analysis" ->
            << Op("check", SUMMARY_CSV), Op("map", ""), Op("describe", ""),
               Op("write", "sector_avg_mean.csv"),
               Op("write", "sector_avg_median.csv"),
               Op("write", "sector_bar_mean.png"),
               Op("write", "sector_bar_median.png"),
               Op("write", "sector_box_car10.png"),
               Op("compare", ""), Op("write", "treated_vs_defensive.txt") >>
      [] st = "event_study_inference" ->
            << Op("read", SUMMARY_CSV), Op("map", ""), Op("report", ""),
               Op("group", ""), Op("compare", ""),
               Op("write", "bootstrap_ci.csv"),
               Op("write", "bootstrap_CI_CARs.png") >>
      [] st = "did_analysis" ->
            << Op("read", PANEL_CSV), Op("map", ""), Op("report", ""),
               Op("group", ""), Op("compare", ""),
               Op("write", "did_summary.csv"),
               Op("write", "did_event_time_means.png"),
               Op("write", "did_event_time_diff.png") >>
      [] st = "ddd_analysis" ->
            << Op("check", PANEL_CSV), Op("check", META), Op("map", ""),
               Op("group", ""), Op("compare", ""),
               Op("write", "ddd_summary.csv") >>
      [] st = "volatility_models" ->
            << Op("check", PANEL_CSV), Op("check", META), Op("map", ""),
               Op("describe", ""), Op("write", VOL_SUMMARY),
               Op("write", "volatility_sector.csv"), Op("compare", ""),
               Op("write", "volatility_groups.csv"),
               Op("write", "vol_hist.png"), Op("write", "vol_sector_bar.png"),
               Op("write", "vol_sector_box.png") >>
      [] st = "volatility_group_comparison" ->
            << Op("read", VOL_SUMMARY), Op("map", ""), Op("group", ""),
               Op("write", "vol_vol_group_summary.csv"), Op("compare", ""),
               Op("write", "vol_vol_group_bars.png") >>
      [] OTHER -> global_linkages

NoError == [kind |-> "none", file |-> ""]
Missing(f) == [kind |-> "missing_input", file |-> f]
Abort(k) == [kind |-> k, file |-> ""]

\* the sector a stage gives a ticker of its input table
StageSector(st, t, m, yahoo) ==
    CASE st = "data_download" -> fetch_sectors({t}, yahoo)[t]
      [] st = "sector_analysis" -> Lookup(SECTOR_MAP, t)
      [] st \in {"did_analysis", "event_study_inference"} ->
            Lookup(ticker_to_sector, t)
      [] OTHER -> Lookup(m, t)

\* mutant: the filter keeps every group
isin_any(g) == TRUE

\* Group.isin(["Treated", "Defensive"])
isin_groups(g) == g \in {"Treated", "Defensive"}

\* the group of a row: the stage's classifier; sector_analysis has none and
\* tests membership in its two buckets directly
StageGroup(st, sector) ==
    IF st = "sector_analysis"
    THEN IF sector \in TREATED_SECTORS(st) THEN "Treated"
         ELSE IF sector \in DEFENSIVE_SECTORS(st) THEN "Defensive"
         ELSE "Other"
    ELSE classify_group(st, sector)

NoSectors == [t \in {} |-> ""]

\* the stage is at an instruction and has not raised
Running ==
    /\ stage \in Stages
    /\ serr = NoError
    /\ ip \in 1..Len(Program(stage))

Cur == Program(stage)[ip]

Finished == stage \in Stages /\ serr = NoError /\ ip = Len(Program(stage)) + 1

Advance == ip' = ip + 1 /\ serr' = serr
Raise(e) == ip' = ip /\ serr' = e

InitPipeline ==
    /\ stage \in Stages
    /\ files \in SUBSET InputFiles
    /\ tickers_in \in SUBSET Tickers
    /\ meta \in Metas
    /\ enough \in SUBSET tickers_in
    /\ ip = 1
    /\ serr = NoError
    /\ written = {}
    /\ sector_of = NoSectors
    /\ kept = {}
    /\ reported = {}
    /\ sample = {}
    /\ descr = {}

\* if not os.path.exists(path): raise ... naming the path
DoCheck ==
    /\ Running /\ Cur.op = "check"
    /\ IF Cur.f \in files THEN Advance ELSE Raise(Missing(Cur.f))
    /\ UNCHANGED <<written, sector_of, kept, reported, sample, descr>>
    /\ UNCHANGED <<pipeInputs, esInputs, esLocals, pureVars, volVars, rngVars>>

\* pd.read_csv(path) with no test before it: FileNotFoundError naming the path
DoRead ==
    /\ Running /\ Cur.op = "read"
    /\ IF Cur.f \in files THEN Advance ELSE Raise(Missing(Cur.f))
    /\ UNCHANGED <<written, sector_of, kept, reported, sample, descr>>
    /\ UNCHANGED <<pipeInputs, esInputs, esLocals, pureVars, volVars, rngVars>>

\* if os.path.exists(path): read it; the stage goes on either way
DoOptRead ==
    /\ Running /\ Cur.op = "optread"
    /\ Advance
    /\ UNCHANGED <<written, sector_of, kept, reported, sample, descr>>
    /\ UNCHANGED <<pipeInputs, esInputs, esLocals, pureVars, volVars, rngVars>>

\* the download (data_download) or the numeric work (event_study,
\* global_linkages): SystemExit when the data do not suffice
DoCompute ==
    /\ Running /\ Cur.op \in {"fetch", "crunch"}
    /\ IF enough # {} THEN Advance ELSE Raise(Abort("no_data"))
    /\ UNCHANGED <<written, sector_of, kept, reported, sample, descr>>
    /\ UNCHANGED <<pipeInputs, esInputs, esLocals, pureVars, volVars, rngVars>>

\* the rows that get a sector: the stage's table; in data_download the
\* equities that were fetched
MappedTickers == IF stage = "data_download" THEN enough ELSE tickers_in

\* the sector column is attached to the stage's table; ensure_mapping of
\* sector_analysis raises SystemExit when a ticker has none
DoMap ==
    /\ Running /\ Cur.op = "map"
    /\ \E yahoo \in YahooAnswers :
          sector_of' = [t \in MappedTickers |-> StageSector(stage, t, meta, yahoo)]
    /\ kept' = MappedTickers
    /\ IF stage = "sector_analysis"
          /\ \E t \in tickers_in : Lookup(SECTOR_MAP, t) = NaNSector
       THEN Raise(Abort("unmapped"))
       ELSE Advance
    /\ UNCHANGED <<written, reported, sample, descr>>
    /\ UNCHANGED <<pipeInputs, esInputs, esLocals, pureVars, volVars, rngVars>>

\* print("[WARN] ...", missing)
DoReport ==
    /\ Running /\ Cur.op = "report"
    /\ reported' =
         { t \in DOMAIN sector_of :
             sector_of[t] = (IF stage = "data_download" THEN "Unmapped"
                             ELSE NaNSector) }
    /\ Advance
    /\ UNCHANGED <<written, sector_of, kept, sample, descr>>
    /\ UNCHANGED <<pipeInputs, esInputs, esLocals, pureVars, volVars, rngVars>>

\* df = df[df["Group"].isin(["Treated", "Defensive"])]
DoGroup ==
    /\ Running /\ Cur.op = "group"
    /\ kept' = { t \in kept : isin_groups(StageGroup(stage, sector_of[t])) }
    /\ IF stage = "volatility_group_comparison" /\ kept' = {}
       THEN Raise(Abort("no_rows"))
       ELSE Advance
    /\ UNCHANGED <<written, sector_of, reported, sample, descr>>
    /\ UNCHANGED <<pipeInputs, esInputs, esLocals, pureVars, volVars, rngVars>>

\* the descriptive table: sector_tables(df) of sector_analysis, the per-ticker
\* rows of volatility_models (one per ticker with enough observations,
\* SystemExit when there is none)
DoDescribe ==
    /\ Running /\ Cur.op = "describe"
    /\ IF stage = "volatility_models"
       THEN IF kept \cap enough = {}
            THEN Raise(Abort("no_rows")) /\ UNCHANGED <<kept, descr>>
            ELSE Advance /\ kept' = kept \cap enough /\ descr' = kept \cap enough
       ELSE Advance /\ kept' = kept /\ descr' = kept
    /\ UNCHANGED <<written, sector_of, reported, sample>>
    /\ UNCHANGED <<pipeInputs, esInputs, esLocals, pureVars, volVars, rngVars>>

\* the rows the comparison is computed from: the whole (filtered) table in
\* the regressions, the bootstrap and volatility_group_comparison; the
\* treated and the defensive selections in sector_analysis and
\* volatility_models
DoCompare ==
    /\ Running /\ Cur.op = "compare"
    /\ sample' =
         IF stage \in {"sector_analysis", "volatility_models"}
         THEN { t \in kept : StageGroup(stage, sector_of[t]) = "Treated" }
              \cup { t \in kept : StageGroup(stage, sector_of[t]) = "Defensive" }
         ELSE kept
    /\ Advance
    /\ UNCHANGED <<written, sector_of, kept, reported, descr>>
    /\ UNCHANGED <<pipeInputs, esInputs, esLocals, pureVars, volVars, rngVars>>

\* to_csv / savefig / open(out, "w")
DoWrite ==
    /\ Running /\ Cur.op = "write"
    /\ written' = written \cup {Cur.f}
    /\ Advance
    /\ UNCHANGED <<sector_of, kept, reported, sample, descr>>
    /\ UNCHANGED <<pipeInputs, esInputs, esLocals, pureVars, volVars, rngVars>>

NextPipeline ==
    \/ DoCheck
    \/ DoRead
    \/ DoOptRead
    \/ DoCompute
    \/ DoMap
    \/ DoReport
    \/ DoGroup
    \/ DoDescribe
    \/ DoCompare
    \/ DoWrite

----------------------------------------------------------------------------
(* The group classifiers as pure functions *)

Pending == "<pending>"

ClassifierStages ==
    {"did_analysis", "ddd_analysis", "event_study_inference",
     "volatility_models", "volatility_group_comparison"}

\* every sector name of the buckets, names the buckets do not have, and NaN
SectorValues ==
    UNION { TREATED_SECTORS(st) \cup DEFENSIVE_SECTORS(st) : st \in Stages }
    \cup {"Unmapped", "Financial Services", "Healthcare", "", NaNSector}

NoCall == [stage |-> "", sector |-> ""]

InitClassify ==
    /\ call \in [stage : ClassifierStages, sector : SectorValues]
    /\ result = Pending

Classify ==
    /\ call # NoCall
    /\ result = Pending
    /\ result' = classify_group(call.stage, call.sector)
    /\ UNCHANGED call
    /\ UNCHANGED <<esInputs, esLocals, pipeInputs, pipeLocals, volVars, rngVars>>

----------------------------------------------------------------------------
(* The specifications: each runs one part, the others stay idle *)

EventStudyIdle ==
    /\ merged_exists = FALSE
    /\ df = NoPanel
    /\ event_date = 0
    /\ pre_days = 0
    /\ post_days = 0
    /\ car_k1 = DEFAULT_K1
    /\ car_k2 = DEFAULT_K2
    /\ pc = "idle"
    /\ err = "none"
    /\ ret = NoReturns
    /\ ev = 0
    /\ ev_idx = 0
    /\ est_window = <<>>
    /\ event_window = <<>>
    /\ todo = <<>>
    /\ rows = <<>>
    /\ ar_panels = <<>>
    /\ summary = <<>>
    /\ out = {}

PipelineIdle ==
    /\ stage = "idle"
    /\ files = {}
    /\ tickers_in = {}
    /\ meta = NoSectors
    /\ enough = {}
    /\ ip = 0
    /\ serr = NoError
    /\ written = {}
    /\ sector_of = NoSectors
    /\ kept = {}
    /\ reported = {}
    /\ sample = {}
    /\ descr = {}

ClassifyIdle ==
    /\ call = NoCall
    /\ result = Pending

VolatilityIdle ==
    /\ vol_pc = "idle"
    /\ vol_todo = <<>>
    /\ vol_rows = <<>>
    /\ ok_flags = <<>>
    /\ used_garch_any = FALSE
    /\ vol_out = <<>>

\* the stages never touch numpy's global generator
RandomIdle == np_random = 0

OthersIdle == VolatilityIdle /\ RandomIdle

\* event_study.py, step by step
Init == InitEventStudy /\ PipelineIdle /\ ClassifyIdle /\ OthersIdle
Next == NextEventStudy
Spec == Init /\ [][Next]_vars

\* one run of one stage over the files of the pipeline
InitStages == InitPipeline /\ EventStudyIdle /\ ClassifyIdle /\ OthersIdle
SpecPipeline == InitStages /\ [][NextPipeline]_vars

\* one call of a stage's group classifier
InitCalls == InitClassify /\ EventStudyIdle /\ PipelineIdle /\ OthersIdle
NextClassify == Classify
SpecClassify == InitCalls /\ [][NextClassify]_vars



----------------------------------------------------------------------------
(* ddd_analysis.py: the sample the DDD regression is fitted on *)

NARROW_BEFORE == 10         \* rel_days >= -10
NARROW_AFTER  == 40         \* rel_days <= 40

\* an optional argument: None is <<>>, a given value v is <<v>>
None == <<>>
NoResult == <<>>            \* the function has not returned yet
Returned(v) == <<v>>

\* the event-study panel read by the stage: one row per ticker and date
DddDates == <<8, 17, 20, 22, 65>>
DddTickerLists ==
    { <<"ONGC.NS">>, <<"ONGC.NS", "TCS.NS">>, <<"ONGC.NS", "TCS.NS", "SCI.NS">> }
DddMissing ==
    { {}, {<<"ONGC.NS", 17>>}, {<<"TCS.NS", 22>>, <<"ONGC.NS", 65>>} }

DddPanel(tl, missing) ==
    [ k \in 1..(Len(tl) * Len(DddDates)) |->
        LET t == tl[((k - 1) \div Len(DddDates)) + 1]
            d == DddDates[((k - 1) % Len(DddDates)) + 1]
        IN  [ tic |-> t, dt |-> d,
              ar |-> IF <<t, d>> \in missing THEN NaN ELSE Num(d - ColIx(t)) ] ]

DddPanels == { DddPanel(tl, missing) : tl \in DddTickerLists, missing \in DddMissing }
DddEventDates == {20, 21}
DropBounds == {None} \cup { <<d>> : d \in {8, 17, 20, 22, 66} }

\* lines 78-83: the left merge with the metadata, the group, the filter
ddd_group_filter(tbl, m) ==
    SelectSeq(tbl, LAMBDA r :
        isin_groups(classify_group("ddd_analysis", Lookup(m, r.tic))))

\* line 92: df.dropna(subset=[ar_col])
ddd_dropna(tbl) == SelectSeq(tbl, LAMBDA r : r.ar # NaN)

\* mutant: the interval is taken as open, its end points are kept
donut_open(tbl, drop_start, drop_end) ==
    IF drop_start # None /\ drop_end # None
    THEN SelectSeq(tbl, LAMBDA r :
             ~(r.dt > drop_start[1] /\ r.dt < drop_end[1]))
    ELSE tbl

\* lines 96-102: the optional donut exclusion
donut(tbl, drop_start, drop_end) ==
    IF drop_start # None /\ drop_end # None
    THEN SelectSeq(tbl, LAMBDA r :
             ~(r.dt >= drop_start[1] /\ r.dt <= drop_end[1]))
    ELSE tbl

\* lines 106-107: the window around the event
narrow(tbl, ev_date) ==
    SelectSeq(tbl, LAMBDA r :
        /\ r.dt - ev_date >= 0 - NARROW_BEFORE
        /\ r.dt - ev_date <= NARROW_AFTER)

\* the rows handed to smf.ols
ddd_sample(c) ==
    narrow(donut(ddd_dropna(ddd_group_filter(c.df, c.meta)),
                 c.drop_start, c.drop_end),
           c.event_date)

InitDdd ==
    /\ call \in [ df : DddPanels, meta : Metas, event_date : DddEventDates,
                  drop_start : DropBounds, drop_end : DropBounds ]
    /\ result = NoResult

FitDdd ==
    /\ result = NoResult
    /\ result' = Returned(ddd_sample(call))
    /\ UNCHANGED call
    /\ UNCHANGED <<esInputs, esLocals, pipeInputs, pipeLocals, volVars, rngVars>>

InitDddSample == InitDdd /\ EventStudyIdle /\ PipelineIdle /\ OthersIdle
NextDdd == FitDdd
SpecDdd == InitDddSample /\ [][NextDdd]_vars

----------------------------------------------------------------------------
(* welch_t of sector_analysis.py and of event_study_inference.py *)

MaxSample == 3              \* observations of the largest sample

\* the samples: sequences of up to MaxSample values (NaN already dropped)
SampleValues == {1, 2}
Samples == UNION { [1..n -> SampleValues] : n \in 0..MaxSample }

RECURSIVE SumSq(_)
SumSq(s) == IF s = <<>> THEN 0 ELSE s[1] * s[1] + SumSq(Tail(s))

\* the values a t-statistic can take; a finite one is
\*   (n / d) / sqrt(vn / vd)   with d > 0, vn > 0, vd > 0
TNaN == [kind |-> "nan"]
TInf(sign) == [kind |-> "inf", sign |-> sign]
TNum(n, d, vn, vd) == [kind |-> "num", n |-> n, d |-> d, vn |-> vn, vd |-> vd]

\* ma - mb = mean_diff_num / (na * nb)
mean_diff_num(a, b) == SumSeq(a) * Len(b) - SumSeq(b) * Len(a)

\* va/na + vb/nb with ddof = 1, as var_sum_num / var_sum_den
\* (both samples have at least 2 observations)
var_sum_num(a, b) ==
    (Len(a) * SumSq(a) - SumSeq(a) * SumSeq(a)) * (Len(b) * Len(b) * (Len(b) - 1))
    + (Len(b) * SumSq(b) - SumSeq(b) * SumSeq(b)) * (Len(a) * Len(a) * (Len(a) - 1))
var_sum_den(a, b) ==
    (Len(a) * Len(a) * (Len(a) - 1)) * (Len(b) * Len(b) * (Len(b) - 1))

\* sector_analysis.py:120-129.  An empty sample has mean NaN, a sample of
\* one has var(ddof=1) NaN; either makes tden NaN, and NaN > 0 is False.
welch_t_sector(a, b) ==
    IF Len(a) < 2 \/ Len(b) < 2 THEN TNaN
    ELSE IF var_sum_num(a, b) > 0
         THEN TNum(mean_diff_num(a, b), Len(a) * Len(b),
                   var_sum_num(a, b), var_sum_den(a, b))
         ELSE TNaN

\* event_study_inference.py:143-147: scipy.stats.ttest_ind(equal_var=False)
\* divides the mean difference by the denominator without testing it: a
\* zero denominator gives +-inf, or NaN when the means are equal too.
welch_t_inference(a, b) ==
    IF Len(a) < 2 \/ Len(b) < 2 THEN TNaN
    ELSE IF var_sum_num(a, b) > 0
         THEN TNum(mean_diff_num(a, b), Len(a) * Len(b),
                   var_sum_num(a, b), var_sum_den(a, b))
         ELSE IF mean_diff_num(a, b) > 0 THEN TInf(1)
         ELSE IF mean_diff_num(a, b) < 0 THEN TInf(0 - 1)
         ELSE TNaN

welch_t(impl, a, b) ==
    IF impl = "sector_analysis" THEN welch_t_sector(a, b)
    ELSE welch_t_inference(a, b)

InitWelch ==
    /\ call \in [ impl : {"sector_analysis", "event_study_inference"},
                  a : Samples, b : Samples ]
    /\ result = NoResult

\* the statistic of (a, b), then that of the swapped groups (b, a)
CallWelch ==
    /\ Len(result) < 2
    /\ result' =
         IF result = NoResult
         THEN << welch_t(call.impl, call.a, call.b) >>
         ELSE Append(result, welch_t(call.impl, call.b, call.a))
    /\ UNCHANGED call
    /\ UNCHANGED <<esInputs, esLocals, pipeInputs, pipeLocals, volVars, rngVars>>

InitWelchCalls == InitWelch /\ EventStudyIdle /\ PipelineIdle /\ OthersIdle
NextWelch == CallWelch
SpecWelch == InitWelchCalls /\ [][NextWelch]_vars

----------------------------------------------------------------------------
(* bootstrap_ci of event_study_inference.py and bootstrap_mean of           *)
(* volatility_group_comparison.py                                           *)

MaxBoot == 3                \* resamples of one bootstrap call
MaxCalls == 3               \* bootstrap calls of one process
RngModulus == 16            \* states of a generator
MantissaBits == 3           \* significant bits of a float (53 in float64)
MaxExponent == 8            \* largest binary exponent of a float, in units

Seeds == {42, 7}

\* a generator is a state; drawing advances it
rng_next(s) == (5 * s + 3) % RngModulus

\* mutant: the call draws from the process-wide generator
shared_generator(seed, g) == g

\* np.random.default_rng(seed): a new generator, determined by the seed and
\* by nothing else (g is the state of the process-wide generator)
default_rng(seed, g) == seed % RngModulus

\* float64 arithmetic, at a mantissa of MantissaBits bits: a value is a whole
\* number of units (the smallest subnormal), exact below 2^MantissaBits units
\* and rounded to MantissaBits significant bits, ties to even, above
RECURSIVE Pow2(_)
Pow2(k) == IF k = 0 THEN 1 ELSE 2 * Pow2(k - 1)

\* the float nearest to the quotient a / b (a >= 0, b > 0)
fl(a, b) ==
    LET e == CHOOSE k \in 0..MaxExponent :
                 /\ a < Pow2(MantissaBits + k) * b
                 /\ (k = 0 \/ a >= Pow2(MantissaBits + k - 1) * b)
        step == Pow2(e)
        q == a \div (b * step)
        r == a - q * b * step
    IN  IF 2 * r > b * step \/ (2 * r = b * step /\ q % 2 = 1)
        THEN (q + 1) * step
        ELSE q * step

\* ndarray.sum(): the elements added one after the other, each addition rounded
RECURSIVE np_sum(_, _)
np_sum(v, acc) == IF v = <<>> THEN acc ELSE np_sum(Tail(v), fl(acc + v[1], 1))

\* ndarray.mean() / np.mean: the rounded sum divided by the length
np_mean(v) == fl(np_sum(v, 0), Len(v))

\* rng.choice(data, len(data), replace=True): k more draws
RECURSIVE resample(_, _, _)
resample(data, s, k) ==
    IF k = 0 THEN <<>>
    ELSE << data[(s % Len(data)) + 1] >> \o resample(data, rng_next(s), k - 1)

RECURSIVE rng_skip(_, _)
rng_skip(s, k) == IF k = 0 THEN s ELSE rng_skip(rng_next(s), k - 1)

\* the means of n_boot resamples drawn one after the other
RECURSIVE resample_means(_, _, _)
resample_means(data, s, n_boot) ==
    IF n_boot = 0 THEN <<>>
    ELSE << np_mean(resample(data, s, Len(data))) >>
         \o resample_means(data, rng_skip(s, Len(data)), n_boot - 1)

RECURSIVE InsertAsc(_, _)
InsertAsc(x, s) ==
    IF s = <<>> THEN <<x>>
    ELSE IF x <= s[1] THEN <<x>> \o s
    ELSE <<s[1]>> \o InsertAsc(x, Tail(s))

RECURSIVE SortAsc(_)
SortAsc(s) == IF s = <<>> THEN <<>> ELSE InsertAsc(s[1], SortAsc(Tail(s)))

\* np.percentile(v, q) with linear interpolation, q given in 1/200 (2.5 is
\* 5, 97.5 is 195); the value is the result / 200 (the interpolation between
\* two neighbouring values is kept exact: it lies between them)
percentile200(v, q) ==
    LET sorted == SortAsc(v)
        pos == q * (Len(v) - 1)
        k == pos \div 200
        f == pos % 200
    IN  sorted[k + 1] * (200 - f) + (IF f = 0 THEN 0 ELSE sorted[k + 2] * f)

dropna_values(data) ==
    LET kept_cells == SelectSeq(data, LAMBDA c : c # NaN)
    IN  [i \in 1..Len(kept_cells) |-> kept_cells[i][1]]

BootNaN == [mean |-> RNaN, low |-> RNaN, high |-> RNaN]

\* event_study_inference.py:160-168
bootstrap_ci(data, n_boot, seed, g) ==
    LET d == dropna_values(data)
        means == resample_means(d, default_rng(seed, g), n_boot)
    IN  IF Len(d) = 0 THEN BootNaN
        ELSE [ mean |-> <<np_mean(d), 1>>,
               low  |-> <<percentile200(means, 5), 200>>,
               high |-> <<percentile200(means, 195), 200>> ]

\* volatility_group_comparison.py:34-37 (arr is not empty)
bootstrap_mean(arr, B, seed, g) ==
    LET means == resample_means(arr, default_rng(seed, g), B)
    IN  [ mean |-> <<np_mean(means), 1>>,
          low  |-> <<percentile200(means, 5), 200>>,
          high |-> <<percentile200(means, 195), 200>> ]

\* the data of the calls: values, for bootstrap_ci with missing cells
BootArrays == { <<1>>, <<1, 2>>, <<5, 1, 2>> }
BootSeries ==
    { <<>>, <<Num(5), Num(1), Num(2)>>, <<Num(2), NaN, Num(5)>>,
      <<Num(6), Num(6), Num(6)>> }

InitBootstrap ==
    /\ call = <<>>
    /\ result = <<>>
    /\ np_random \in 0..(RngModulus - 1)

\* one more call of bootstrap_ci
CallBootstrapCi ==
    /\ Len(call) < MaxCalls
    /\ \E data \in BootSeries, seed \in Seeds :
          /\ call' = Append(call, [fn |-> "bootstrap_ci", data |-> data, seed |-> seed])
          /\ result' = Append(result, bootstrap_ci(data, MaxBoot, seed, np_random))
    /\ UNCHANGED np_random
    /\ UNCHANGED <<esInputs, esLocals, pipeInputs, pipeLocals, volVars>>

\* one more call of bootstrap_mean
CallBootstrapMean ==
    /\ Len(call) < MaxCalls
    /\ \E arr \in BootArrays, seed \in Seeds :
          /\ call' = Append(call, [fn |-> "bootstrap_mean", data |-> arr, seed |-> seed])
          /\ result' = Append(result, bootstrap_mean(arr, MaxBoot, seed, np_random))
    /\ UNCHANGED np_random
    /\ UNCHANGED <<esInputs, esLocals, pipeInputs, pipeLocals, volVars>>

\* other code of the process (a library, a plot) draws from numpy's global
\* generator between two calls
DrawGlobal ==
    /\ Len(call) < MaxCalls
    /\ np_random' = rng_next(np_random)
    /\ UNCHANGED <<call, result>>
    /\ UNCHANGED <<esInputs, esLocals, pipeInputs, pipeLocals, volVars>>

InitBootstrapCalls == InitBootstrap /\ EventStudyIdle /\ PipelineIdle /\ VolatilityIdle
NextBootstrap ==
    \/ CallBootstrapCi
    \/ CallBootstrapMean
    \/ DrawGlobal
SpecBootstrap == InitBootstrapCalls /\ [][NextBootstrap]_vars

----------------------------------------------------------------------------
(* volatility_models.py: the per-ticker volatility summary *)

MIN_OBS == 5                \* len(pre) < 5 or len(post) < 5: continue

\* the arguments and the environment of main: the event-study panel, the
\* sector metadata, the event date, and whether the arch package is there
VolDateLists == { <<15, 16, 17, 18, 19, 20, 21, 22, 23, 24>>,
                  <<14, 15, 16, 17, 18, 19, 20, 21, 22, 23, 24>> }
VolTickerLists == { <<"TCS.NS">>, <<"TCS.NS", "ONGC.NS">>, <<"SCI.NS", "ONGC.NS">> }
VolMissing == { {}, {<<"ONGC.NS", 16>>}, {<<"TCS.NS", 22>>, <<"SCI.NS", 24>>} }
VolEventDates == {20, 21}

VolPanel(tl, dl, missing) ==
    [ k \in 1..(Len(tl) * Len(dl)) |->
        LET t == tl[((k - 1) \div Len(dl)) + 1]
            d == dl[((k - 1) % Len(dl)) + 1]
        IN  [ tic |-> t, dt |-> d,
              ar |-> IF <<t, d>> \in missing THEN NaN
                     ELSE Num((d * d + ColIx(t)) % 7) ] ]

VolPanels ==
    { VolPanel(tl, dl, missing) :
        tl \in VolTickerLists, dl \in VolDateLists, missing \in VolMissing }

\* groupby iterates the tickers in sorted order
TickerRank(t) ==
    CASE t = "HDFCBANK.NS" -> 1
      [] t = "ONGC.NS" -> 2
      [] t = "SCI.NS" -> 3
      [] OTHER -> 4

RECURSIVE SortedTickers(_)
SortedTickers(S) ==
    IF S = {} THEN <<>>
    ELSE LET t == CHOOSE x \in S : \A y \in S : TickerRank(x) <= TickerRank(y)
         IN  <<t>> \o SortedTickers(S \ {t})

\* g[g[date] < event_date][ar] and g[g[date] >= event_date][ar] of a ticker,
\* rows without AR dropped, sorted by date (the panels are in date order)
ArValues(rows_) == [i \in 1..Len(rows_) |-> rows_[i].ar[1]]
pre_segment(panel, t, ev_date) ==
    ArValues(SelectSeq(panel, LAMBDA r : r.tic = t /\ r.ar # NaN /\ r.dt < ev_date))
post_segment(panel, t, ev_date) ==
    ArValues(SelectSeq(panel, LAMBDA r : r.tic = t /\ r.ar # NaN /\ r.dt >= ev_date))

\* mutant: one long segment is enough
enough_obs_either(pre, post) == ~(Len(pre) < MIN_OBS /\ Len(post) < MIN_OBS)

enough_obs(pre, post) == ~(Len(pre) < MIN_OBS \/ Len(post) < MIN_OBS)

ISqrt(v) == CHOOSE k \in 0..v : k * k <= v /\ v < (k + 1) * (k + 1)

\* np.std(x, ddof=1), rounded down to an integer; len(x) >= 2
sample_std(x) ==
    ISqrt((Len(x) * SumSq(x) - SumSeq(x) * SumSeq(x)) \div (Len(x) * (Len(x) - 1)))

\* what arch_model(...).fit() does with a segment: it raises (<<>>; always so
\* when the package is missing: ImportError) or gives a mean conditional
\* volatility <<g>>
GarchSigmas == {1, 4}
FitOutcomes(arch) ==
    IF arch THEN {<<>>} \cup { <<g>> : g \in GarchSigmas } ELSE {<<>>}

\* mutant: a failed fit gives no estimate
estimate_no_fallback(returns, fit) ==
    IF fit = <<>> THEN <<0, FALSE>> ELSE <<fit[1], TRUE>>

\* lines 47-61: (mean_sigma, model_ok_flag)
estimate_garch_sigma_mean(returns, fit) ==
    IF fit = <<>> THEN <<sample_std(returns), FALSE>> ELSE <<fit[1], TRUE>>

InitVolatility ==
    /\ call \in [ panel : VolPanels, meta : Metas, event_date : VolEventDates,
                  arch : BOOLEAN ]
    /\ result = NoResult
    /\ vol_pc = "start"
    /\ vol_todo = <<>>
    /\ vol_rows = <<>>
    /\ ok_flags = <<>>
    /\ used_garch_any = FALSE
    /\ vol_out = <<>>

\* lines 99-111: merge, dropna, groupby
GroupByTicker ==
    /\ vol_pc = "start"
    /\ vol_todo' = SortedTickers({ call.panel[i].tic :
                        i \in { j \in DOMAIN call.panel : call.panel[j].ar # NaN } })
    /\ vol_pc' = "loop"
    /\ UNCHANGED <<vol_rows, ok_flags, used_garch_any, vol_out>>
    /\ UNCHANGED <<esInputs, esLocals, pipeInputs, pipeLocals, pureVars, rngVars>>

\* lines 112-130: one iteration of the loop
EstimateTicker ==
    /\ vol_pc = "loop"
    /\ vol_todo # <<>>
    /\ LET tic == Head(vol_todo)
           pre == pre_segment(call.panel, tic, call.event_date)
           post == post_segment(call.panel, tic, call.event_date)
       IN  IF ~enough_obs(pre, post)
           THEN UNCHANGED <<vol_rows, ok_flags, used_garch_any>>
           ELSE \E fit1, fit2 \in FitOutcomes(call.arch) :
                  LET e1 == estimate_garch_sigma_mean(pre, fit1)
                      e2 == estimate_garch_sigma_mean(post, fit2)
                  IN  /\ used_garch_any' = (used_garch_any \/ (e1[2] /\ e2[2]))
                      /\ ok_flags' = (tic :> <<e1[2], e2[2]>>) @@ ok_flags
                      /\ vol_rows' = Append(vol_rows,
                            [ ticker |-> tic,
                              sector |-> Lookup(call.meta, tic),
                              exposure_group |-> "none",
                              pre_mean_sigma |-> e1[1],
                              post_mean_sigma |-> e2[1],
                              delta_sigma |-> e2[1] - e1[1] ])
    /\ vol_todo' = Tail(vol_todo)
    /\ UNCHANGED <<vol_pc, vol_out>>
    /\ UNCHANGED <<esInputs, esLocals, pipeInputs, pipeLocals, pureVars, rngVars>>

\* lines 132-139: the table, SystemExit when it is empty, the group flags
BuildTable ==
    /\ vol_pc = "loop"
    /\ vol_todo = <<>>
    /\ IF vol_rows = <<>>
       THEN vol_pc' = "failed" /\ UNCHANGED vol_rows
       ELSE /\ vol_pc' = "table"
            /\ vol_rows' =
                 [ i \in DOMAIN vol_rows |->
                     LET g == classify_group("volatility_models", vol_rows[i].sector)
                     IN  [ ticker |-> vol_rows[i].ticker,
                           sector |-> vol_rows[i].sector,
                           exposure_group |-> vol_rows[i].exposure_group,
                           pre_mean_sigma |-> vol_rows[i].pre_mean_sigma,
                           post_mean_sigma |-> vol_rows[i].post_mean_sigma,
                           delta_sigma |-> vol_rows[i].delta_sigma,
                           Group |-> g,
                           TreatedFlag |-> IF g = "Treated" THEN 1 ELSE 0,
                           HighExposure |-> 0 ] ]
    /\ UNCHANGED <<vol_todo, ok_flags, used_garch_any, vol_out>>
    /\ UNCHANGED <<esInputs, esLocals, pipeInputs, pipeLocals, pureVars, rngVars>>

\* lines 142-146: vol.to_csv(out1); the warning is printed, not written
WriteSummary ==
    /\ vol_pc = "table"
    /\ vol_out' = vol_rows
    /\ vol_pc' = "written"
    /\ UNCHANGED <<vol_todo, vol_rows, ok_flags, used_garch_any>>
    /\ UNCHANGED <<esInputs, esLocals, pipeInputs, pipeLocals, pureVars, rngVars>>

InitVolatilityRun == InitVolatility /\ EventStudyIdle /\ PipelineIdle /\ RandomIdle
NextVolatility ==
    \/ GroupByTicker
    \/ EstimateTicker
    \/ BuildTable
    \/ WriteSummary
SpecVolatility == InitVolatilityRun /\ [][NextVolatility]_vars

----------------------------------------------------------------------------
(* global_linkages.py: compute_macro_shocks *)

MaxK == 2                   \* largest k_pre / k_post

SHOCK_SERIES == <<"BZ=F", "^VIX", "INR=X">>
ShockName(sym) ==
    CASE sym = "BZ=F" -> "brent"
      [] sym = "^VIX" -> "vix"
      [] OTHER -> "inr"
SeriesIx(sym) ==
    CASE sym = "BZ=F" -> 1
      [] sym = "^VIX" -> 2
      [] OTHER -> 3

ERR_MISSING_COLUMN == "[ERR] merged_market_daily.csv missing column"
ERR_NOT_ENOUGH_DAYS == "[ERR] Not enough days to compute macro shocks."

\* the merged table: rows in date order, a cell per column (prices are
\* positive), some cells missing
ShockDateLists == { <<>>, <<18, 19>>, <<20, 21>>, <<19, 20>>, <<18, 19, 20, 21>> }
ShockColumnSets == { {"BZ=F", "^VIX", "INR=X"}, {"BZ=F", "INR=X"} }
ShockMissing ==
    { {}, {<<"^VIX", 18>>, <<"^VIX", 19>>}, {<<"INR=X", 20>>},
      {<<"BZ=F", 21>>, <<"BZ=F", 20>>} }
SHOCK_EVENT == 20

MergedTable(dl, cols, missing) ==
    [ i \in 1..Len(dl) |->
        [ dt |-> dl[i],
          px |-> [ c \in cols |->
                     IF <<c, dl[i]>> \in missing THEN NaN
                     ELSE Num(dl[i] + 3 * SeriesIx(c) + (dl[i] % 3) * SeriesIx(c)) ] ] ]

MergedTables ==
    { MergedTable(dl, cols, missing) :
        dl \in ShockDateLists, cols \in ShockColumnSets, missing \in ShockMissing }


\* Series.mean(): the mean of the cells that are not missing, as
\* <<sum, count>>; NaN (<<0, 0>>) when there is none
series_mean(rows_, sym) ==
    LET cells == SelectSeq(rows_, LAMBDA r : r.px[sym] # NaN)
        vals == [i \in 1..Len(cells) |-> cells[i].px[sym][1]]
    IN  IF Len(cells) = 0 THEN RNaN ELSE <<SumSeq(vals), Len(vals)>>

\* (post_m - pre_m) / pre_m as a rational; NaN when a mean is NaN
shock(pre_m, post_m) ==
    IF pre_m = RNaN \/ post_m = RNaN THEN RNaN
    ELSE << post_m[1] * pre_m[2] - pre_m[1] * post_m[2], pre_m[1] * post_m[2] >>

\* mutant: the pre window is cut from the start of the earlier rows
tail_from_start(s, k) == SubSeq(s, 1, Min(k, Len(s)))

\* DataFrame.tail(k) and head(k), k >= 0
tail(s, k) == SubSeq(s, Len(s) - Min(k, Len(s)) + 1, Len(s))
head(s, k) == SubSeq(s, 1, Min(k, Len(s)))

DatesOf(rows_) == [i \in DOMAIN rows_ |-> rows_[i].dt]

\* lines 74-96: the error raised or "none", the returned shocks, and the
\* index of the two windows pre and post
compute_macro_shocks(merged, event_dt, k_pre, k_post) ==
    LET pre == tail(SelectSeq(merged, LAMBDA r : r.dt < event_dt), k_pre)
        post == head(SelectSeq(merged, LAMBDA r : r.dt >= event_dt), k_post)
    IN  IF \E r \in Range(merged), i \in DOMAIN SHOCK_SERIES :
              SHOCK_SERIES[i] \notin DOMAIN r.px
        THEN [err |-> ERR_MISSING_COLUMN, out |-> <<>>, pre |-> <<>>, post |-> <<>>]
        ELSE IF Len(pre) = 0 \/ Len(post) = 0
        THEN [err |-> ERR_NOT_ENOUGH_DAYS, out |-> <<>>,
              pre |-> DatesOf(pre), post |-> DatesOf(post)]
        ELSE [err |-> "none",
              out |-> [ i \in DOMAIN SHOCK_SERIES |->
                          shock(series_mean(pre, SHOCK_SERIES[i]),
                                series_mean(post, SHOCK_SERIES[i])) ],
              pre |-> DatesOf(pre), post |-> DatesOf(post)]

InitShocks ==
    /\ call \in [ merged : MergedTables, event_dt : {SHOCK_EVENT},
                  k_pre : 0..MaxK, k_post : 0..MaxK ]
    /\ result = NoResult

CallShocks ==
    /\ result = NoResult
    /\ result' = Returned(compute_macro_shocks(call.merged, call.event_dt,
                                                call.k_pre, call.k_post))
    /\ UNCHANGED call
    /\ UNCHANGED <<esInputs, esLocals, pipeInputs, pipeLocals, volVars, rngVars>>

InitShockCalls == InitShocks /\ EventStudyIdle /\ PipelineIdle /\ OthersIdle
NextShocks == CallShocks
SpecShocks == InitShockCalls /\ [][NextShocks]_vars

----------------------------------------------------------------------------
(* The header of the statistics tables the stages write *)

\* the columns of the DataFrame handed to to_csv(..., index=False)
TableColumns(f) ==
    CASE f = "did_summary.csv" -> <<"term", "coef", "std_err", "pvalue">>
      [] f = "ddd_summary.csv" -> <<"term", "coef", "std_err", "pval">>
      [] f = "bootstrap_ci.csv" ->
            <<"Group", "Metric", "Mean", "Low_CI", "High_CI", "N">>
      [] OTHER -> <<>>

----------------------------------------------------------------------------
(* ddd_analysis.py and volatility_models.py: the HighExposure flag *)

ExposureStages == {"ddd_analysis", "volatility_models"}

\* HIGH_EXPOSURE_TICKERS of the two stages
HIGH_EXPOSURE_TICKERS(st) ==
    IF st = "ddd_analysis"
    THEN {"SCI.NS", "PETRONET.NS", "BPCL.NS", "ONGC.NS", "IOC.NS",
          "CHAMBLFERT.NS", "GODREJAGRO.NS", "COROMANDEL.NS"}
    ELSE {"SCI.NS", "PETRONET.NS", "BPCL.NS", "ONGC.NS", "IOC.NS",
          "CHAMBLFERT.NS", "GODREJAGRO.NS", "COROMANDEL.NS", "ADANIPORTS.NS"}

\* the values of exposure_group that count as high exposure
HIGH_EXPOSURE_GROUPS == {"high", "shipping", "oil", "agri"}

ExposureTickers == {"ONGC.NS", "ADANIPORTS.NS", "TCS.NS", "SCI.NS"}
ExposureGroupValues == {"high", "oil", "none", "unknown"}

\* ticker_sectors.csv: the sector column and the optional exposure_group
\* column (None when the file has no such column)
ExposureMetas ==
    UNION { { [sector |-> fetch_sectors(dom, NoAnswer), exposure_group |-> col] :
                col \in {None} \cup { <<g>> : g \in [dom -> ExposureGroupValues] } } :
            dom \in {ExposureTickers, ExposureTickers \ {"SCI.NS"}} }

\* if "exposure_group" not in meta.columns: built from HIGH_EXPOSURE_TICKERS,
\* for the tickers of the metadata
ensure_exposure_group(st, m) ==
    IF m.exposure_group # None
    THEN m.exposure_group[1]
    ELSE [t \in DOMAIN m.sector |->
            IF t \in HIGH_EXPOSURE_TICKERS(st) THEN "high" ELSE "none"]

\* df["exposure_group"].isin(["high","shipping","oil","agri"]).astype(int)
\* after the left merge of the metadata
HighExposure(st, m, t) ==
    IF Lookup(ensure_exposure_group(st, m), t) \in HIGH_EXPOSURE_GROUPS THEN 1 ELSE 0

\* the tickers whose rows get a flag: ddd_analysis keeps the Treated and
\* Defensive rows first, volatility_models flags every row of its table
FlaggedTickers(st, m, tickers) ==
    IF st = "ddd_analysis"
    THEN { t \in tickers : isin_groups(classify_group(st, Lookup(m.sector, t))) }
    ELSE tickers

exposure_flags(st, m, tickers) ==
    [t \in FlaggedTickers(st, m, tickers) |-> HighExposure(st, m, t)]

InitExposure ==
    /\ call \in [meta : ExposureMetas,
                 tickers : {ExposureTickers, ExposureTickers \ {"TCS.NS"}}]
    /\ result = [st \in ExposureStages |-> NoResult]

\* one of the two stages builds its flags from the same metadata
BuildFlags ==
    /\ \E st \in ExposureStages :
          /\ result[st] = NoResult
          /\ result' = [result EXCEPT
                           ![st] = Returned(exposure_flags(st, call.meta, call.tickers))]
    /\ UNCHANGED call
    /\ UNCHANGED <<esInputs, esLocals, pipeInputs, pipeLocals, volVars, rngVars>>

InitExposureFlags == InitExposure /\ EventStudyIdle /\ PipelineIdle /\ OthersIdle
NextExposure == BuildFlags
SpecExposure == InitExposureFlags /\ [][NextExposure]_vars

----------------------------------------------------------------------------
(* did_analysis.py and ddd_analysis.py: the regression handed to smf.ols *)

DID_NARROW_AFTER == 20      \* did_analysis: rel_days <= 20

RegressionStages == {"did_analysis", "ddd_analysis"}

\* the AR column written by event_study has no missing value
DesignPanels == { DddPanel(tl, {}) : tl \in DddTickerLists }

\* did_analysis lines 74-99: the sector from the static table, the group
\* filter, and the window of -10..20 days around the event
did_sample(c) ==
    SelectSeq(c.df, LAMBDA r :
        /\ isin_groups(classify_group("did_analysis", Lookup(ticker_to_sector, r.tic)))
        /\ r.dt - c.event_date >= 0 - NARROW_BEFORE
        /\ r.dt - c.event_date <= DID_NARROW_AFTER)

\* the indicator columns each stage multiplies in its formula:
\* "y ~ TreatedFlag*Post + ..." and "y ~ TreatedFlag*HighExposure*Post + ..."
formula_factors(st) ==
    IF st = "did_analysis"
    THEN {"TreatedFlag", "Post"}
    ELSE {"TreatedFlag", "HighExposure", "Post"}

\* mutant: a:b, the product term alone
patsy_colon(factors) == {factors}

\* patsy's a*b: every main effect and every interaction of the factors
\* (a term is the set of the factors it multiplies)
patsy_star(factors) == SUBSET factors \ {{}}

\* the term whose coefficient the stage reports as its key estimate
headline_key(st) ==
    IF st = "did_analysis"
    THEN {"TreatedFlag", "Post"}
    ELSE {"TreatedFlag", "HighExposure", "Post"}

FitError == [error |-> "smf.ols on a sample without rows"]

\* smf.ols(formula, data=df).fit(cov_type="cluster",
\*                               cov_kwds={"groups": df[ticker column]})
ols_fit(st, smp) ==
    IF smp = <<>> THEN FitError
    ELSE [ endog    |-> [i \in DOMAIN smp |-> smp[i].ar],
           terms    |-> patsy_star(formula_factors(st)),
           C        |-> [ tic |-> { smp[i].tic : i \in DOMAIN smp },
                          dt  |-> { smp[i].dt : i \in DOMAIN smp } ],
           cov_type |-> "cluster",
           groups   |-> [i \in DOMAIN smp |-> smp[i].tic],
           key      |-> headline_key(st) ]

regression_sample(c) ==
    IF c.stage = "did_analysis" THEN did_sample(c) ELSE ddd_sample(c)

InitRegression ==
    /\ call \in
         [ stage : {"ddd_analysis"}, df : DesignPanels, meta : Metas,
           event_date : DddEventDates, drop_start : DropBounds, drop_end : DropBounds ]
         \cup
         [ stage : {"did_analysis"}, df : DesignPanels, meta : Metas,
           event_date : DddEventDates, drop_start : {None}, drop_end : {None} ]
    /\ result = NoResult

FitRegression ==
    /\ result = NoResult
    /\ result' = Returned(ols_fit(call.stage, regression_sample(call)))
    /\ UNCHANGED call
    /\ UNCHANGED <<esInputs, esLocals, pipeInputs, pipeLocals, volVars, rngVars>>

InitRegressionFit == InitRegression /\ EventStudyIdle /\ PipelineIdle /\ OthersIdle
NextRegression == FitRegression
SpecRegression == InitRegressionFit /\ [][NextRegression]_vars

----------------------------------------------------------------------------
(* did_analysis.py, ddd_analysis.py, volatility_models.py: the Post flag *)

\* df["Post"] = (df[date_col] >= EVENT_DATE).astype(int), EVENT_DATE being
\* the requested --event_date; volatility_models splits on the same test
Post(date, requested) == IF date >= requested THEN 1 ELSE 0

----------------------------------------------------------------------------
(* sector_analysis.py and event_study_inference.py: reading the summary *)

\* sector_analysis.load_summary: need = {"ticker","CAR_5d","CAR_10d"}
load_summary_accepts(cols) == {"ticker", "CAR_5d", "CAR_10d"} \subseteq cols

car5_candidates == {"CAR5", "car5", "CAR_5d", "car_5d"}
car10_candidates == {"CAR10", "car10", "CAR_10d", "car_10d"}

\* event_study_inference: a KeyError unless one candidate of each list is a
\* column of the summary
inference_accepts(cols) ==
    /\ car5_candidates \cap cols # {}
    /\ car10_candidates \cap cols # {}

----------------------------------------------------------------------------
(* global_linkages.py: build_exposures *)

MaxTableRows == 2           \* rows of the largest volatility table

UPPERCASE == "ABCDEFGHIJKLMNOPQRSTUVWXYZ"
LOWERCASE == "abcdefghijklmnopqrstuvwxyz"

\* str.lower(), character by character
LowerChar(c) ==
    IF \E i \in 1..Len(UPPERCASE) : SubSeq(UPPERCASE, i, i) = c
    THEN LET i == CHOOSE j \in 1..Len(UPPERCASE) : SubSeq(UPPERCASE, j, j) = c
         IN  SubSeq(LOWERCASE, i, i)
    ELSE c

RECURSIVE lower(_)
lower(s) ==
    IF Len(s) = 0 THEN ""
    ELSE LowerChar(SubSeq(s, 1, 1)) \o lower(SubSeq(s, 2, Len(s)))

\* k in s: k is a substring of s
Contains(s, k) ==
    \E i \in 1..(Len(s) - Len(k) + 1) : SubSeq(s, i, i + Len(k) - 1) = k

\* any(k in s for k in keywords)
any_in(s, keywords) == \E k \in keywords : Contains(s, k)

\* str(sector or ""): a missing sector is the float nan, which is true
str_or_empty(sector) == IF sector = NaNSector THEN "nan" ELSE sector

ENERGY_KEYWORDS == {"energy", "oil", "gas"}
TRADE_KEYWORDS ==
    {"industrial", "basic", "materials", "metal", "mining", "consumer cyclical",
     "transport", "infra", "port", "shipping"}
DEFENSIVE_KEYWORDS ==
    {"consumer defensive", "fmcg", "healthcare", "pharma", "utilities", "telecom"}
CYCLICAL_KEYWORDS == {"auto", "automobile", "bank", "financial services"}
RISK_KEYWORDS == {"financial", "bank", "nbfc", "broker"}
FX_KEYWORDS == {"it", "software", "technology", "tech"}

Int01(b) == IF b THEN 1 ELSE 0

\* lines 56-71
build_exposures(sector) ==
    LET s == lower(str_or_empty(sector))
        energy_exp == any_in(s, ENERGY_KEYWORDS)
        trade_exp == any_in(s, TRADE_KEYWORDS)
        defensive == any_in(s, DEFENSIVE_KEYWORDS)
    IN  [ treated    |-> Int01(~defensive /\ (energy_exp \/ trade_exp
                                              \/ any_in(s, CYCLICAL_KEYWORDS))),
          energy_exp |-> Int01(energy_exp),
          risk_exp   |-> Int01(any_in(s, RISK_KEYWORDS)),
          fx_exp     |-> Int01(any_in(s, FX_KEYWORDS)) ]

\* the sector labels of data_download.py FALLBACK_SECTOR
FallbackSectorLabels ==
    {"Autos", "Banks", "Cement", "Chemicals", "Consumer Discretionary", "Energy",
     "FMCG", "Finance", "IT", "Industrials", "Infrastructure", "Metals", "Pharma",
     "Telecom", "Utilities"}

\* the sector names of the market-data provider
ProviderSectorLabels ==
    {"Technology", "Financial Services", "Healthcare", "Consumer Cyclical",
     "Consumer Defensive", "Basic Materials", "Communication Services",
     "Real Estate"}

\* the sector column of the volatility table: a label of ticker_sectors.csv,
\* "Unmapped", or missing
SectorLabels ==
    FallbackSectorLabels \cup ProviderSectorLabels \cup {"Unmapped", NaNSector}

InitLinkages ==
    /\ call \in UNION { [1..n -> SectorLabels] : n \in 1..MaxTableRows }
    /\ result = NoResult

\* line 129: vol["sector"].apply(build_exposures)
ApplyExposures ==
    /\ result = NoResult
    /\ result' = Returned([i \in DOMAIN call |-> build_exposures(call[i])])
    /\ UNCHANGED call
    /\ UNCHANGED <<esInputs, esLocals, pipeInputs, pipeLocals, volVars, rngVars>>

InitLinkagesRun == InitLinkages /\ EventStudyIdle /\ PipelineIdle /\ OthersIdle
NextLinkages == ApplyExposures
SpecLinkages == InitLinkagesRun /\ [][NextLinkages]_vars

----------------------------------------------------------------------------
(* Properties of the event-study stage *)

\* main has aligned the event date and cut the windows
Aligned ==
    \/ pc \in {"loop", "saved", "done"}
    \/ pc = "failed" /\ err \in {ERR_HORIZON, ERR_NO_ROWS}

\* 0-based position of trading day d in the return index
PosOf(d) == get_loc(ret.dates, d)

SetMax(S) == CHOOSE x \in S : \A y \in S : y <= x

\* C1: for every ticker of the panel and every day t of its event-window
\* series, car[t] is the sum of ar[d] over the days d <= t of that same
\* series; on the first day car = ar, and nothing carries over from the
\* ticker before.
C1_CarIsRunningSum ==
    \A i \in 1..Len(ar_panels) :
        LET f == ar_panels[i]
        IN  /\ Len(f.car) = Len(f.ar)
            /\ Len(f.date) = Len(f.ar)
            /\ Len(f.ar) > 0 => f.car[1] = f.ar[1]
            /\ \A k \in 1..Len(f.ar) : f.car[k] = SumSeq(SubSeq(f.ar, 1, k))

\* two tickers in the panel, the first one ending on a non-zero CAR, the
\* second one with a non-zero AR on its first day and several days
C1_Witness ==
    /\ Len(ar_panels) = 2
    /\ Len(ar_panels[2].ar) >= 3
    /\ ar_panels[1].car[Len(ar_panels[1].car)] # 0
    /\ ar_panels[2].ar[1] # 0
    /\ ar_panels[2].ar[2] # 0

\* C2: for every ticker with a non-empty event-window series and each
\* horizon k >= 0, CAR_kd is the car of the last event-window day whose
\* index position is <= ev_idx + k; past the end of the window or of the
\* index it is the car of the last available day, and the lookup never
\* raises.
C2_FixedHorizonCar ==
    /\ err # ERR_HORIZON
    /\ \A i \in 1..Len(rows) :
        LET f == ar_panels[i]
        IN  Len(f.date) > 0 =>
              \A k \in {car_k1, car_k2} :
                 LET P == {p \in 1..Len(f.date) : PosOf(f.date[p]) <= ev_idx + k}
                 IN  /\ P # {}
                     /\ rows[i][CarCol(k)] = <<f.car[SetMax(P)], f.den>>
                     /\ ev_idx + k >= PosOf(f.date[Len(f.date)])
                           => rows[i][CarCol(k)] = <<f.car[Len(f.date)], f.den>>

\* a row whose second horizon lies past the end of the index, and whose first
\* horizon lies inside the event window
C2_Witness ==
    /\ pc = "done"
    /\ Len(rows) >= 1
    /\ Len(ar_panels[1].date) >= 3
    /\ ev_idx + car_k2 > Len(ret.dates) - 1
    /\ ev_idx + car_k1 < PosOf(ar_panels[1].date[Len(ar_panels[1].date)])
    /\ rows[1][CarCol(car_k1)] # rows[1][CarCol(car_k2)]

\* C3: on a return index that has trading days, a requested event date that
\* is a trading day is used as is; otherwise the event day is the earliest
\* trading day on or after it; if there is none, it is the last trading day,
\* and main goes on (the alignment raises only on an index without any day).
C3_EventDateAlignment ==
    /\ (pc = "failed" /\ err = ERR_EMPTY_INDEX) => Len(ret.dates) = 0
    /\ (pc = "returns" /\ Len(ret.dates) > 0) => ENABLED AlignEvent
    /\ Aligned =>
         LET D  == Range(ret.dates)
             on == {d \in D : d >= event_date}
         IN  /\ ev \in D
             /\ ret.dates[ev_idx + 1] = ev
             /\ event_date \in D => ev = event_date
             /\ (event_date \notin D /\ on # {}) =>
                    ev \in on /\ \A d \in on : ev <= d
             /\ on = {} => \A d \in D : d <= ev

\* the degenerate case: the requested date lies after the last trading day,
\* and main still runs to its end
C3_Witness ==
    /\ pc = "done"
    /\ \A d \in Range(ret.dates) : d < event_date
    /\ ev = ret.dates[Len(ret.dates)]

\* C4 as stated: the windows are disjoint, every estimation-window day lies
\* strictly before the event window's first day minus the 21-day gap, and
\* both windows are trading days of the index.
C4_Original ==
    Aligned =>
        /\ Range(est_window) \cap Range(event_window) = {}
        /\ \A d \in Range(est_window) : PosOf(d) < event_start(ev_idx) - GAP
        /\ Range(est_window) \cup Range(event_window) \subseteq Range(ret.dates)

\* a window is a run of consecutive index positions
IsIndexRun(w) ==
    /\ Range(w) \subseteq Range(ret.dates)
    /\ \A k \in 1..(Len(w) - 1) : PosOf(w[k + 1]) = PosOf(w[k]) + 1

\* C4 amended: the windows are disjoint, every estimation-window day lies
\* strictly before the event day minus the 21-trading-day gap (position
\* < ev_idx - 21, the event window starting 5 positions before the event
\* day), every estimation day precedes every event-window day, and both
\* windows are runs of consecutive positions of the return index.
C4_WindowsSeparated ==
    Aligned =>
        /\ Range(est_window) \cap Range(event_window) = {}
        /\ \A d \in Range(est_window) : PosOf(d) < ev_idx - GAP
        /\ \A d \in Range(est_window) : \A e \in Range(event_window) : d < e
        /\ \A e \in Range(event_window) : PosOf(e) >= ev_idx - EVENT_LEAD
        /\ IsIndexRun(est_window)
        /\ IsIndexRun(event_window)

\* both windows have several days, and the event window crosses a weekend
C4_Witness ==
    /\ Aligned
    /\ Len(est_window) >= 2
    /\ Len(event_window) >= 2
    /\ \E k \in 1..(Len(event_window) - 1) : event_window[k + 1] > event_window[k] + 1

\* the tickers the loop has gone through
Processed == {t \in Range(TickersOf(df.cols)) : t \notin Range(todo)}

\* C5: a ticker whose estimation-window sample is empty gets no parameters:
\* it is in neither the summary rows nor the AR/CAR panel (so never with
\* alpha = 0, beta = 0).
C5_EmptySampleSkipped ==
    Aligned =>
        \A t \in Processed :
            Len(Loc(ret, est_window, t)) = 0 =>
                /\ \A i \in 1..Len(rows) : rows[i]["ticker"] # t
                /\ \A i \in 1..Len(summary) : summary[i]["ticker"] # t
                /\ \A i \in 1..Len(ar_panels) : ar_panels[i].ticker # t

\* the loop is over and two tickers were skipped
C5_Witness ==
    /\ pc = "loop"
    /\ todo = <<>>
    /\ Cardinality(Processed) = 2
    /\ Len(est_window) = 0
    /\ Len(ret.dates) > GAP

\* C6 as stated: with the market column present (here also: a return index
\* that has days, tickers to process, and window lengths --pre_days > 0,
\* --post_days >= 0), skipping tickers never aborts the stage; it ends with
\* its summary table written.
C6_SkipsNeverAbort ==
    /\ (Aligned /\ TickersOf(df.cols) # <<>> /\ pre_days > 0 /\ post_days >= 0)
          => pc # "failed"
    /\ pc = "done" => SUMMARY_CSV \in out

----------------------------------------------------------------------------
(* Properties of the stages as file-based programs *)

\* the input files a stage cannot run without
RequiredInputs(st) ==
    CASE st = "event_study" -> {MERGED}
      [] st \in {"sector_analysis", "event_study_inference"} -> {SUMMARY_CSV}
      [] st = "did_analysis" -> {PANEL_CSV}
      [] st \in {"ddd_analysis", "volatility_models"} -> {PANEL_CSV, META}
      [] st = "volatility_group_comparison" -> {VOL_SUMMARY}
      [] st = "global_linkages" -> {VOL_SUMMARY, MERGED}
      [] OTHER -> {}

\* C7: a stage started while one of its required input files is absent
\* writes none of its outputs and does not complete; the only way it stops
\* is with an error that names a required file that is absent.
C7_FailFastOnMissingInput ==
    (stage \in Stages /\ ~(RequiredInputs(stage) \subseteq files)) =>
        /\ written = {}
        /\ ~Finished
        /\ serr # NoError =>
              /\ serr.kind = "missing_input"
              /\ serr.file \in RequiredInputs(stage) \ files

C7_Witness ==
    /\ stage = "global_linkages"
    /\ VOL_SUMMARY \in files
    /\ serr = Missing(MERGED)
    /\ written = {}

\* C8: in every stage that has a group classifier the treated and the
\* defensive sector sets are disjoint, and the classifier maps a sector of
\* the treated set to Treated, one of the defensive set to Defensive, and
\* every other value, a missing sector included, to Other.
C8_ClassifierTotal ==
    /\ \A st \in ClassifierStages :
          TREATED_SECTORS(st) \cap DEFENSIVE_SECTORS(st) = {}
    /\ result # Pending =>
          /\ result \in {"Treated", "Defensive", "Other"}
          /\ call.sector \in TREATED_SECTORS(call.stage) => result = "Treated"
          /\ call.sector \in DEFENSIVE_SECTORS(call.stage) => result = "Defensive"
          /\ call.sector \notin (TREATED_SECTORS(call.stage)
                                   \cup DEFENSIVE_SECTORS(call.stage))
                => result = "Other"

C8_Witness ==
    /\ call.stage = "volatility_group_comparison"
    /\ call.sector = NaNSector
    /\ result = "Other"

\* the stages that attach a sector to each ticker of their table
MappingStages ==
    { st \in Stages : \E i \in 1..Len(Program(st)) : Program(st)[i].op = "map" }

\* the stage found no sector for the ticker
Unmapped(t) ==
    /\ t \in DOMAIN sector_of
    /\ sector_of[t] \in {NaNSector, "Unmapped"}

\* C9: in every stage that maps tickers to sectors, a ticker without a
\* mapping never stops the stage, and when the stage has completed the
\* ticker has been given Other or "Unmapped" and has been reported.
C9_UnmappedNeverFatal ==
    /\ serr.kind # "unmapped"
    /\ (Finished /\ stage \in MappingStages) =>
          \A t \in tickers_in :
              Unmapped(t) =>
                  /\ t \in reported
                  /\ \/ sector_of[t] = "Unmapped"
                     \/ StageGroup(stage, sector_of[t]) = "Other"

\* the stage has written its descriptive table
DescriptiveWritten ==
    \/ stage = "sector_analysis" /\ "sector_avg_mean.csv" \in written
                                 /\ "sector_avg_median.csv" \in written
    \/ stage = "volatility_models" /\ VOL_SUMMARY \in written

\* C10: every ticker whose rows enter a grouped comparison has group Treated
\* or Defensive, and once a stage has written its descriptive table (the
\* sector mean/median tables, the per-ticker volatility summary) every input
\* ticker of group Other is in it (in the volatility summary: every such
\* ticker with enough observations).
C10_OtherOnlyOutOfComparisons ==
    /\ \A t \in sample :
          StageGroup(stage, sector_of[t]) \in {"Treated", "Defensive"}
    /\ DescriptiveWritten =>
          \A t \in tickers_in :
              ( /\ StageGroup(stage, sector_of[t]) = "Other"
                /\ stage = "volatility_models" => t \in enough )
              => t \in descr

C10_Witness ==
    /\ DescriptiveWritten
    /\ sample # {}
    /\ \E t \in descr \ sample : StageGroup(stage, sector_of[t]) = "Other"

----------------------------------------------------------------------------
(* Properties of the DDD sample *)

\* a row that is in the sample when nothing is excluded
DddEligible(r) ==
    /\ classify_group("ddd_analysis", Lookup(call.meta, r.tic))
          \in {"Treated", "Defensive"}
    /\ r.ar # NaN
    /\ r.dt - call.event_date \in (0 - NARROW_BEFORE)..NARROW_AFTER

\* the caller gave the interval [start, end] and the row's date is in it
InDonut(r) ==
    /\ call.drop_start # None
    /\ call.drop_end # None
    /\ call.drop_start[1] <= r.dt
    /\ r.dt <= call.drop_end[1]

\* C11: the fitted DDD sample holds no row dated inside a supplied interval
\* [start, end], holds every otherwise eligible row outside it, unchanged
\* and in the panel's order, and is the whole eligible panel when no
\* interval is supplied.
C11_DonutExclusion ==
    result # NoResult =>
        /\ \A i \in DOMAIN result[1] : ~InDonut(result[1][i])
        /\ result[1] = SelectSeq(call.df, LAMBDA r : DddEligible(r) /\ ~InDonut(r))
        /\ (call.drop_start = None /\ call.drop_end = None) =>
              result[1] = SelectSeq(call.df, DddEligible)

C11_Witness ==
    /\ result # NoResult
    /\ call.drop_start # None /\ call.drop_end # None
    /\ \E i \in DOMAIN call.df :
          DddEligible(call.df[i]) /\ call.df[i].dt = call.drop_end[1]
    /\ \E i \in DOMAIN call.df :
          DddEligible(call.df[i]) /\ call.df[i].dt = call.drop_start[1]
    /\ call.drop_start[1] < call.drop_end[1]
    /\ result[1] # <<>>

----------------------------------------------------------------------------
(* Properties of the Welch statistic *)

\* -t
TNeg(t) ==
    CASE t.kind = "num" -> TNum(0 - t.n, t.d, t.vn, t.vd)
      [] t.kind = "inf" -> TInf(0 - t.sign)
      [] OTHER -> t

\* sqrt(var_a/n_a + var_b/n_b) is a positive number
DenominatorPositive(a, b) ==
    /\ Len(a) >= 2
    /\ Len(b) >= 2
    /\ var_sum_num(a, b) > 0

\* C12: welch_t(A, B) = -welch_t(B, A) whenever it is defined, it is NaN for
\* (A, B) exactly when it is NaN for (B, A), and it is NaN exactly when the
\* denominator sqrt(var_a/n_a + var_b/n_b) is not positive.
C12_WelchAntisymmetric ==
    Len(result) = 2 =>
        /\ (result[1] = TNaN) <=> (result[2] = TNaN)
        /\ result[1] # TNaN => result[2] = TNeg(result[1])
        /\ (result[1] = TNaN) <=> ~DenominatorPositive(call.a, call.b)

----------------------------------------------------------------------------
(* Properties of the bootstrap *)

\* the two calls are calls of the same function with the same data and seed
SameCall(c1, c2) == c1.fn = c2.fn /\ c1.seed = c2.seed /\ c1.data = c2.data

\* C13: two bootstrap calls of one process with the same function, data and
\* seed return the same result, whatever calls were made and whatever was
\* drawn from the process-wide generator before and between them.
C13_BootstrapReproducible ==
    \A i, j \in DOMAIN call :
        SameCall(call[i], call[j]) => result[i] = result[j]

C13_Witness ==
    /\ Len(call) = MaxCalls
    /\ SameCall(call[1], call[MaxCalls])
    /\ ~SameCall(call[1], call[2])
    /\ call[1].fn = "bootstrap_ci"
    /\ np_random # 0
    /\ result[1] # BootNaN
    /\ result[1].low # result[1].high

----------------------------------------------------------------------------
(* Properties of the volatility summary *)

\* the number of panel rows of the ticker with an AR, before the event date
\* and on or after it
PreCount(t) ==
    Cardinality({ i \in DOMAIN call.panel :
        /\ call.panel[i].tic = t
        /\ call.panel[i].ar # NaN
        /\ call.panel[i].dt < call.event_date })
PostCount(t) ==
    Cardinality({ i \in DOMAIN call.panel :
        /\ call.panel[i].tic = t
        /\ call.panel[i].ar # NaN
        /\ call.panel[i].dt >= call.event_date })

PanelTickers == { call.panel[i].tic : i \in DOMAIN call.panel }
VolEligible == { t \in PanelTickers : PreCount(t) >= MIN_OBS /\ PostCount(t) >= MIN_OBS }

RowTickers(tbl) == { tbl[i].ticker : i \in DOMAIN tbl }

\* C14: the volatility summary has a row for a ticker exactly when the
\* ticker has at least 5 panel rows with an AR strictly before the event
\* date and at least 5 on or after it, one row per such ticker, and
\* delta_sigma of each row is its post_mean_sigma minus its pre_mean_sigma;
\* the stage stops without a table only when no ticker qualifies.
C14_SummaryRowsIffEnoughObs ==
    /\ vol_pc \in {"table", "written"} =>
          /\ RowTickers(vol_rows) = VolEligible
          /\ Len(vol_rows) = Cardinality(VolEligible)
          /\ \A i \in DOMAIN vol_rows :
                vol_rows[i].delta_sigma =
                    vol_rows[i].post_mean_sigma - vol_rows[i].pre_mean_sigma
    /\ vol_pc = "written" => vol_out = vol_rows
    /\ vol_pc = "failed" => VolEligible = {}
    /\ RowTickers(vol_rows) \subseteq VolEligible

C14_Witness ==
    /\ vol_pc = "written"
    /\ \E t \in PanelTickers : PreCount(t) = MIN_OBS - 1 /\ PostCount(t) >= MIN_OBS
    /\ \E t \in RowTickers(vol_out) : PreCount(t) = MIN_OBS /\ PostCount(t) = MIN_OBS

\* the ticker's row in the table
RowOf(tbl, t) == tbl[CHOOSE i \in DOMAIN tbl : tbl[i].ticker = t]

\* C15: when the GARCH fit of a segment is unavailable or raises, the
\* estimate of that segment is the sample standard deviation of the
\* segment and the ticker still has its row; the loop goes on to every
\* other ticker, and the stage stops without a table only when no ticker
\* has enough observations, never because a fit failed.
C15_EstimatorFailureLocal ==
    /\ \A t \in DOMAIN ok_flags :
          /\ t \in RowTickers(vol_rows)
          /\ ~ok_flags[t][1] =>
                RowOf(vol_rows, t).pre_mean_sigma =
                    sample_std(pre_segment(call.panel, t, call.event_date))
          /\ ~ok_flags[t][2] =>
                RowOf(vol_rows, t).post_mean_sigma =
                    sample_std(post_segment(call.panel, t, call.event_date))
    /\ vol_pc \in {"table", "written"} =>
          /\ vol_todo = <<>>
          /\ DOMAIN ok_flags = VolEligible
    /\ vol_pc = "failed" => ok_flags = <<>>
    /\ ~call.arch => \A t \in DOMAIN ok_flags : ok_flags[t] = <<FALSE, FALSE>>

C15_Witness ==
    /\ vol_pc = "written"
    /\ call.arch
    /\ Len(vol_out) = 2
    /\ ok_flags[vol_out[1].ticker] = <<FALSE, TRUE>>
    /\ ok_flags[vol_out[2].ticker] = <<TRUE, TRUE>>
    /\ vol_out[1].pre_mean_sigma > 0

\* the columns of the summary that hold data of the ticker
VolDataColumns ==
    {"ticker", "sector", "exposure_group", "pre_mean_sigma", "post_mean_sigma",
     "delta_sigma", "Group", "TreatedFlag", "HighExposure"}

\* C16: in the written volatility summary every row with a pre- or
\* post-segment estimate from the fallback estimator carries a tag that says
\* so: a column besides the data columns.
C16_FallbackRowsTagged ==
    vol_pc = "written" =>
        \A i \in DOMAIN vol_out :
            (ok_flags[vol_out[i].ticker] # <<TRUE, TRUE>>)
                => (DOMAIN vol_out[i]) \ VolDataColumns # {}

----------------------------------------------------------------------------
(* Properties of the macro shocks *)

\* the observations of a series in the pre window (the last k_pre rows
\* before the event) and in the post window (the first k_post rows from it)
PreWindowObs(sym) ==
    LET before == SelectSeq(call.merged, LAMBDA r : r.dt < call.event_dt)
        win == SubSeq(before, Max(1, Len(before) - call.k_pre + 1), Len(before))
    IN  SelectSeq(win, LAMBDA r : r.px[sym] # NaN)
PostWindowObs(sym) ==
    LET after == SelectSeq(call.merged, LAMBDA r : r.dt >= call.event_dt)
        win == SubSeq(after, 1, Min(call.k_post, Len(after)))
    IN  SelectSeq(win, LAMBDA r : r.px[sym] # NaN)

SumPx(rows_, sym) == SumSeq([i \in 1..Len(rows_) |-> rows_[i].px[sym][1]])

HasAllSeries ==
    \A r \in Range(call.merged), i \in DOMAIN SHOCK_SERIES :
        SHOCK_SERIES[i] \in DOMAIN r.px

\* C17: compute_macro_shocks returns for each series
\* (mean(post) - mean(pre)) / mean(pre) over the series' observations in the
\* two windows, raises the fatal error whenever a series has no observation
\* in its pre or in its post window, and never returns a NaN shock.
C17_MacroShocks ==
    (result # NoResult /\ HasAllSeries) =>
        /\ result[1].err = "none" =>
              \A i \in DOMAIN SHOCK_SERIES :
                 LET sym == SHOCK_SERIES[i]
                     a == PreWindowObs(sym)
                     b == PostWindowObs(sym)
                 IN  /\ result[1].out[i] # RNaN
                     /\ result[1].out[i][1] * (SumPx(a, sym) * Len(b))
                          = (SumPx(b, sym) * Len(a) - SumPx(a, sym) * Len(b))
                            * result[1].out[i][2]
        /\ (\E i \in DOMAIN SHOCK_SERIES :
                \/ Len(PreWindowObs(SHOCK_SERIES[i])) = 0
                \/ Len(PostWindowObs(SHOCK_SERIES[i])) = 0)
              => result[1].err = ERR_NOT_ENOUGH_DAYS

----------------------------------------------------------------------------
(* Properties of the written statistics tables *)

REGRESSION_COLUMNS == <<"term", "coef", "std_err", "pval">>
BOOTSTRAP_COLUMNS == <<"Group", "Metric", "Mean", "Low_CI", "High_CI", "N">>

\* C18: the coefficient table written by the DiD stage and the one written
\* by the DDD stage have exactly the columns term, coef, std_err, pval, and
\* the table written by the bootstrap stage has exactly the columns Group,
\* Metric, Mean, Low_CI, High_CI, N.
C18_TableColumns ==
    /\ "did_summary.csv" \in written =>
          TableColumns("did_summary.csv") = REGRESSION_COLUMNS
    /\ "ddd_summary.csv" \in written =>
          TableColumns("ddd_summary.csv") = REGRESSION_COLUMNS
    /\ "bootstrap_ci.csv" \in written =>
          TableColumns("bootstrap_ci.csv") = BOOTSTRAP_COLUMNS

----------------------------------------------------------------------------
(* Properties of the return table of the event study *)

\* main has built the return table (line 55 has run)
ReturnsBuilt ==
    /\ pc \notin {"idle", "start", "loaded"}
    /\ ~(pc = "failed" /\ err \in {ERR_MISSING_MERGED, ERR_NO_MARKET})

\* C19: for a price panel of n >= 2 rows the return table has exactly n - 1
\* rows: only the leading row is dropped.
C19_ReturnRowsOneLess ==
    (ReturnsBuilt /\ Len(df.dates) >= 2) =>
        /\ Len(ret.dates) = Len(df.dates) - 1
        /\ ret.dates = Tail(df.dates)

\* the number of prices of column c that are not missing
Observations(c) == Cardinality({ i \in DOMAIN df.px[c] : df.px[c][i] # NaN })

ERR_INSUFFICIENT_DATA == "InsufficientDataError"

\* C20: when the market or a ticker has fewer than 2 price observations,
\* building the return table ends main with InsufficientDataError; main
\* neither goes on with the table nor fails later with another error.
C20_InsufficientDataError ==
    ( /\ ReturnsBuilt
      /\ \E c \in Range(ret.cols) : Observations(c) < 2 )
    => (pc = "failed" /\ err = ERR_INSUFFICIENT_DATA)

----------------------------------------------------------------------------
(* Properties of the per-ticker AR/CAR series (event_study.py) *)

\* the days of the AR/CAR series the loop has built for ticker t
SeriesDays(t) ==
    UNION { Range(ar_panels[i].date) :
              i \in { j \in DOMAIN ar_panels : ar_panels[j].ticker = t } }

\* the price panel cut down to the market and ticker t
PairPanel(t) == [dates |-> df.dates, cols |-> <<MARKET_TICKER, t>>, px |-> df.px]

\* the event-window days on which both the return of t and the market return
\* exist: the windows cut from the index of the days that have both
PairDays(t) ==
    LET r == Returns(PairPanel(t))
    IN  IF Len(r.dates) = 0 THEN {}
        ELSE LET idx == get_loc(r.dates, AlignedDay(r.dates, event_date))
             IN  IF empty(EstWindow(r.dates, idx, pre_days)) THEN {}
                 ELSE Range(EventWindow(r.dates, idx, post_days))

\* the loop has gone past ticker t
LoopPassed(t) ==
    /\ \/ pc \in {"loop", "saved", "done"}
       \/ pc = "failed" /\ err = ERR_NO_ROWS
    /\ t \in Range(TickersOf(df.cols))
    /\ t \notin Range(todo)

\* C21: a trading day is absent from a ticker's AR/CAR series only if that
\* ticker's return or the market's return is missing on that day: every
\* event-window day on which both exist is in the series, whatever is missing
\* in the series of the other tickers.
C21_OtherTickersNeverRemoveDays ==
    \A t \in Tickers :
        LoopPassed(t) => PairDays(t) \subseteq SeriesDays(t)

----------------------------------------------------------------------------
(* Properties of the HighExposure flag *)

\* the flag of ticker t agrees with the metadata column when the file has
\* one, else with membership in the static set S
FlagDerived(flag, t, S) ==
    /\ flag \in {0, 1}
    /\ IF call.meta.exposure_group # None
       THEN flag = 1 <=> Lookup(call.meta.exposure_group[1], t) \in HIGH_EXPOSURE_GROUPS
       ELSE flag = 1 <=> t \in S

\* C22: the HighExposure flag is always 0 or 1; with an exposure_group column
\* it is 1 exactly when the row's exposure_group is one of high, shipping,
\* oil, agri; without the column it is 1 exactly when the ticker is in the
\* static high-exposure ticker set (one set, whichever stage builds the flag).
C22_HighExposureFlag ==
    \E S \in { HIGH_EXPOSURE_TICKERS(st) : st \in ExposureStages } :
        \A st \in ExposureStages :
            result[st] # NoResult =>
                \A t \in DOMAIN result[st][1] : FlagDerived(result[st][1][t], t, S)

----------------------------------------------------------------------------
(* Properties of the regression design *)

\* the indicators of the design the specification asks for
DesignFlags ==
    IF call.stage = "did_analysis"
    THEN {"TreatedFlag", "Post"}
    ELSE {"TreatedFlag", "HighExposure", "Post"}

----------------------------------------------------------------------------
(* Properties that relate the event-study panel to the stages that read it *)

\* the panel file of the run has been written
PanelWritten == pc \in {"saved", "done"} /\ PANEL_CSV \in out

\* C24: for every row of the AR/CAR panel, the Post indicator of the DiD, DDD
\* and volatility stages (date >= the requested event date) is 1 exactly when
\* the row's trading day is at or after the aligned event trading day chosen
\* by the event-study stage for the same requested date, also when the
\* requested date is not a trading day or lies after the last trading day.
C24_PostMatchesAlignedDay ==
    PanelWritten =>
        \A i \in DOMAIN PanelRows(ar_panels) :
            LET r == PanelRows(ar_panels)[i]
            IN  Post(r.date, event_date) = 1 <=> r.date >= ev

----------------------------------------------------------------------------
(* Properties of the group classification across the stages *)

\* the sector labels the static tables of the stages and the fallback table
\* of the metadata assign
AssignableSectors ==
    { SECTOR_MAP[t] : t \in DOMAIN SECTOR_MAP }
    \cup { FALLBACK_SECTOR[t] : t \in DOMAIN FALLBACK_SECTOR }
    \cup { ticker_to_sector[t] : t \in DOMAIN ticker_to_sector }

\* the stages that put sectors into groups
GroupingStages == ClassifierStages \cup {"sector_analysis"}

\* C25: group classification is consistent across stages: every sector label
\* that a static table or the metadata fallback table can assign is put in
\* the same group among Treated, Defensive, Other by every stage that
\* classifies sectors.
C25_GroupsConsistent ==
    (result # Pending /\ call.sector \in AssignableSectors) =>
        \A st \in GroupingStages : classify_group(st, call.sector) = result

\* the columns of the summary table the event study has written
SummaryColumns == DOMAIN summary[1]

\* C26: for any CAR horizons k1 and k2 chosen at the event-study stage, the
\* summary it writes has the columns ticker, alpha, beta, CAR_{k1}d,
\* CAR_{k2}d and is accepted by every downstream stage that reads it
\* (sector_analysis and event_study_inference find both CAR columns).
C26_SummaryAcceptedDownstream ==
    (pc \in {"saved", "done"} /\ SUMMARY_CSV \in out) =>
        /\ SummaryColumns = {"ticker", "alpha", "beta", CarCol(car_k1), CarCol(car_k2)}
        /\ load_summary_accepts(SummaryColumns)
        /\ inference_accepts(SummaryColumns)

\* the trading days at index positions lo..hi (0-based) of the return index
IndexDays(lo, hi) ==
    IF hi < lo THEN <<>> ELSE [k \in 1..(hi - lo + 1) |-> ret.dates[lo + k]]

\* the rows of a ticker's frame that the volatility stage counts as pre-event
PreEventRows(f) == { k \in DOMAIN f.date : Post(f.date[k], event_date) = 0 }

----------------------------------------------------------------------------
(* Properties of the bootstrap interval *)

SeqMin(v) == CHOOSE x \in Range(v) : \A y \in Range(v) : x <= y
SeqMax(v) == CHOOSE x \in Range(v) : \A y \in Range(v) : y <= x

\* a <= b for rationals with positive denominators
RatLE(a, b) == ~RatGT(a, b)

\* C28: bootstrap_ci on data with at least one non-missing value returns
\* (Mean, Low, High) with min(data) <= Low <= High <= max(data) and Mean
\* equal to the plain mean of the non-missing values; on data with no
\* non-missing value it returns (NaN, NaN, NaN) without raising.
C28_BootstrapInterval ==
    \A i \in DOMAIN call :
        call[i].fn = "bootstrap_ci" =>
            LET d == dropna_values(call[i].data)
                r == result[i]
            IN  IF Len(d) = 0
                THEN r = BootNaN
                ELSE /\ RatLE(<<SeqMin(d), 1>>, r.low)
                     /\ RatLE(r.low, r.high)
                     /\ RatLE(r.high, <<SeqMax(d), 1>>)
                     /\ r.mean = <<np_mean(d), 1>>

----------------------------------------------------------------------------
(* Properties of the windows of compute_macro_shocks *)

\* the dates of the merged table strictly before the event date, and on or
\* after it, in order
DatesBefore == DatesOf(SelectSeq(call.merged, LAMBDA r : r.dt < call.event_dt))
DatesFrom == DatesOf(SelectSeq(call.merged, LAMBDA r : r.dt >= call.event_dt))

\* C29: in compute_macro_shocks with k_pre, k_post >= 1, the pre window is
\* the last k_pre rows strictly before the event date and the post window
\* the first k_post rows on or after it, so the two windows are disjoint;
\* when a side has fewer rows than requested but at least one, the shock is
\* computed from the rows available without any error.
C29_ShockWindows ==
    (result # NoResult /\ HasAllSeries /\ call.k_pre >= 1 /\ call.k_post >= 1) =>
        LET r == result[1]
            nb == Len(DatesBefore)
            na == Len(DatesFrom)
        IN  /\ r.pre = SubSeq(DatesBefore, Max(1, nb - call.k_pre + 1), nb)
            /\ r.post = SubSeq(DatesFrom, 1, Min(call.k_post, na))
            /\ Range(r.pre) \cap Range(r.post) = {}
            /\ \A i \in DOMAIN r.pre, j \in DOMAIN r.post : r.pre[i] < r.post[j]
            /\ (nb >= 1 /\ na >= 1) =>
                  /\ r.err = "none"
                  /\ Len(r.pre) = Min(call.k_pre, nb)
                  /\ Len(r.post) = Min(call.k_post, na)
                  /\ \A i \in DOMAIN SHOCK_SERIES :
                        r.out[i] = shock(series_mean(SelectSeq(call.merged,
                                             LAMBDA x : x.dt \in Range(r.pre)), SHOCK_SERIES[i]),
                                         series_mean(SelectSeq(call.merged,
                                             LAMBDA x : x.dt \in Range(r.post)), SHOCK_SERIES[i]))

\* one row before the event date and one row from it on, where two were
\* asked for on each side
C29_Witness ==
    /\ result # NoResult
    /\ HasAllSeries
    /\ call.k_pre = 2 /\ Len(DatesBefore) = 1
    /\ call.k_post = 2 /\ Len(DatesFrom) = 1
    /\ result[1].err = "none"
    /\ result[1].out[1] # RNaN

----------------------------------------------------------------------------
(* Properties of build_exposures *)

\* the IT / software / technology sectors among the labels
TechSectors == {"IT", "Technology"}

\* C30: for every sector label the pipeline's sector tables can produce,
\* build_exposures returns fx_exp = 1 exactly when the sector is an IT /
\* software / technology sector (0 for every other sector, e.g. Utilities),
\* and it never returns Treated = 1 for a sector matched by a defensive
\* keyword.
C30_ExposureFlags ==
    result # NoResult =>
        \A i \in DOMAIN call :
            /\ result[1][i].fx_exp = 1 <=> call[i] \in TechSectors
            /\ any_in(lower(str_or_empty(call[i])), DEFENSIVE_KEYWORDS)
                  => result[1][i].treated = 0
=============================================================================
